---- MODULE Spec2Model ----
(***************************************************************************)
(* Rule-based article classifier of north-cloud                            *)
(* (docs/plans/streetcode_classifier_rules.py): exclusion stage, category  *)
(* matcher, override cascade and location tagger of classify_article, run  *)
(* by one caller (Spec) or by several interleaved callers (SpecConc).      *)
(*                                                                         *)
(* Text.  Every search in the source is case-insensitive (re.IGNORECASE,   *)
(* and match_patterns/match_any lower the text first), so a string is kept *)
(* case-folded.  A string is a run of `pad' filler characters (dots closed *)
(* by one space, matching no pattern) followed by words joined by single   *)
(* spaces; an empty word stands for an extra space.  A regular expression  *)
(* is a tree over word fragments, searched as re.search does: anywhere in  *)
(* the text unless anchored.  Confidences are in hundredths (0.95 is 95).  *)
(***************************************************************************)
EXTENDS Integers, Sequences, FiniteSets, TLC

\* ------------------------------------------------------------------ bounds
\* A title is the concatenation of at most MaxTitlePhrases headline phrases.
MaxTitlePhrases == 2
\* Number of concurrent callers of classify_article in SpecConc.
NumCallers == 2

\* ------------------------------------------------------------ Python values
None == [kind |-> "None", pad |-> 0, words |-> <<>>]
Str(pad, words) == [kind |-> "str", pad |-> pad, words |-> words]
EmptyStr == Str(0, <<>>)

\* The words of a filler run: one word of dots (it matches no pattern).
FillerWord == "."

\* Python truthiness of a str-or-None value: None and "" are falsy.
Truthy(x) == x.kind = "str" /\ (x.pad > 0 \/ (x.words # <<>> /\ x.words # <<"">>))

\* x or ""
\* The argument as it was passed.
AsPassed(x) == x

OrEmpty(x) == IF Truthy(x) THEN x ELSE EmptyStr

\* ---------------------------------------------------------------- substrings
\* Proper decompositions prefix \o fragment \o suffix of the vocabulary's words
\* that contain a fragment some pattern searches for.
WordSplits ==
  { <<"", "arrest", "ed">>,      \* arrested
    <<"", "escape", "s">>,       \* escapes
    <<"as", "sault", "">> }      \* assault holds the gazetteer entry Sault

\* The ways fragment a occurs in word w, as <<starts the word, ends the word>>.
FragmentAt(a, w) ==
  IF a = w THEN { <<TRUE, TRUE>> }
  ELSE { <<d[1] = "", d[3] = "">> : d \in { d \in WordSplits : d[2] = a /\ d[1] \o d[2] \o d[3] = w } }

\* Character classes of the regular expressions.  No word of the vocabulary
\* holds a digit, so \d+, \d{4} and \$[\d,]+ find nothing; \w+ followed by a
\* space matches the tail of any non-empty word (all of it: the vocabulary's
\* words are made of word characters); \bus\b is the whole word "us".
IsClass(a) == a \in {"\\d+", "\\d{4}", "\\$[\\d,]+", "\\w+", "\\bus\\b"}

ClassAt(a, w) ==
  CASE a = "\\w+" -> IF w \notin {"", FillerWord} THEN { <<TRUE, TRUE>>, <<FALSE, TRUE>> } ELSE {}
    [] a = "\\bus\\b" -> IF w = "us" THEN { <<TRUE, TRUE>> } ELSE {}
    [] OTHER -> {}

At(a, w) == IF IsClass(a) THEN ClassAt(a, w) ELSE FragmentAt(a, w)

\* The words texts are made of: those of the titles and bodies, the piece a
\* cut leaves, the filler.
Vocabulary ==
  { "hiring", "festival", "pipe", "burst", "murder", "theft", "assault", "arrested", "police",
    "standoff", "escapes", "custody", "dui", "crash", "mexico", "mayor", "cleared", "",
    "toronto", "rcmp", "toront", FillerWord }

\* The fragments and classes found in each word.
FragmentsIn ==
  [ w \in Vocabulary |->
      {w} \cup { d[2] : d \in { d \in WordSplits : d[1] \o d[2] \o d[3] = w } }
          \cup { a \in {"\\w+", "\\bus\\b"} : ClassAt(a, w) # {} } ]

\* Occurrences <<first word, last word, starts its word, ends its word>> of the
\* phrase ph of two or more fragments separated by single spaces: its first
\* fragment ends a word, its last begins one, the others are whole words.
PhraseOcc(ph, text) ==
  LET n == Len(ph)
  IN  UNION { { <<i, i + n - 1, oo[1][1], oo[2][2]>> :
                  oo \in { oo \in At(ph[1], text[i]) \X At(ph[n], text[i + n - 1]) : oo[1][2] /\ oo[2][1] } } :
              i \in { i \in 1..(Len(text) - n + 1) :
                        /\ ph[1] \in FragmentsIn[text[i]]
                        /\ \A k \in 2..(n - 1) : <<TRUE, TRUE>> \in At(ph[k], text[i + k - 1]) } }

\* Occurrences of any of the one-fragment alternatives `one'.
WordOcc(one, text) ==
  UNION { UNION { { <<i, i, o[1], o[2]>> : o \in At(a, text[i]) } : a \in one \cap FragmentsIn[text[i]] } :
          i \in 1..Len(text) }

\* ------------------------------------------------------- regular expressions
\* Alt(S): (a|b|...) over phrases;  Then(a, b): a.*b and a.+b (between two
\* words there is always the space);  Or(a, b): a|b over subexpressions;
\* NotBehind(a, S): (?<!s )a;  NotAhead(a, b): a(?!.*b).
Alt(phrases) ==
  [t |-> "alt", one |-> { ph[1] : ph \in { ph \in phrases : Len(ph) = 1 } },
                many |-> { ph \in phrases : Len(ph) > 1 }]
W(words) == [t |-> "alt", one |-> words, many |-> {}]
Then(a, b) == [t |-> "then", a |-> a, b |-> b]
Or(a, b) == [t |-> "or", a |-> a, b |-> b]
NotBehind(a, words) == [t |-> "nb", a |-> a, s |-> words]
NotAhead(a, b) == [t |-> "na", a |-> a, b |-> b]

\* re: unanchored, ^re, re$, ^re$
Re(e) == [bol |-> FALSE, eol |-> FALSE, re |-> e]
Bol(e) == [bol |-> TRUE, eol |-> FALSE, re |-> e]
Eol(e) == [bol |-> FALSE, eol |-> TRUE, re |-> e]
Full(e) == [bol |-> TRUE, eol |-> TRUE, re |-> e]

RECURSIVE Occ(_, _)
Occ(e, text) ==
  CASE e.t = "alt" -> WordOcc(e.one, text) \cup UNION { PhraseOcc(ph, text) : ph \in e.many }
    [] e.t = "then" ->
         LET A == Occ(e.a, text)
             B == Occ(e.b, text)
         IN { <<x[1], y[2], x[3], y[4]>> : <<x, y>> \in { xy \in A \X B : xy[2][1] > xy[1][2] } }
    [] e.t = "or" -> Occ(e.a, text) \cup Occ(e.b, text)
    [] e.t = "nb" ->
         { x \in Occ(e.a, text) :
             ~(x[3] /\ x[1] > 1 /\ \E w \in e.s : <<TRUE, TRUE>> \in At(w, text[x[1] - 1])
                                                   \/ <<FALSE, TRUE>> \in At(w, text[x[1] - 1])) }
    [] e.t = "na" ->
         LET B == Occ(e.b, text)
         IN { x \in Occ(e.a, text) : ~\E y \in B : y[1] > x[2] }

\* re.search(pattern, text, re.IGNORECASE) is not None
Search(p, text) ==
  \E x \in Occ(p.re, text) :
     /\ p.bol => (x[1] = 1 /\ x[3])
     /\ p.eol => (x[2] = Len(text) /\ x[4])

\* ----------------------------------------------------------- pattern tables
\* Exclusion patterns
EXCLUDE_TITLE_PATTERNS == <<
  Bol(Alt({ <<"register">>, <<"sign", "up">>, <<"login">>, <<"subscribe">> })),
  Bol(Alt({ <<"listing", "by">>, <<"listings", "by">>, <<"directory">>, <<"careers">>, <<"jobs">> })),
  Eol(W({"classified", "classifieds"})),
  Full(Alt({ <<"\\w+", "physio">>, <<"\\w+", "clinic">>, <<"\\w+", "centre">>,
             <<"\\w+", "center">>, <<"\\w+", "service">> })),
  Full(Alt({ <<"local", "sports">>, <<"local", "events">>, <<"local", "weather">> })),
  Full(W({"spotlight"})),
  Re(Alt({ <<"part", "time">>, <<"full", "time">>, <<"hiring">>, <<"position">>, <<"vacancy">> })) >>

NON_CRIME_TITLE_PATTERNS == <<
  Re(W({"retirement", "retires", "retiring"})),
  Re(W({"recipe", "restaurant", "dining", "chef", "cuisine"})),
  Re(W({"concert", "festival", "exhibition", "lineup"})),
  Re(Then(Alt({ <<"shoot", "down">>, <<"shoots", "down">> }), W({"rumour", "bill", "proposal", "idea"}))),
  Re(Alt({ <<"water", "main", "break">>, <<"pipe", "break">> })),
  Re(Alt({ <<"turning", "heads">> })),
  Re(Then(W({"trapper", "trappers"}), W({"\\d{4}"}))) >>

\* Core street crime patterns: <<pattern, confidence>>
VIOLENT_CRIME_PATTERNS == <<
  <<Re(W({"murder", "homicide", "manslaughter"})), 95>>,
  <<Re(NotBehind(Alt({ <<"shooting">>, <<"shootout">>, <<"shot", "dead">>, <<"shots", "fired">>,
                       <<"gunfire">>, <<"gunshot">> }), {"photo", "film"})), 90>>,
  <<Re(Alt({ <<"stab">>, <<"stabbing">>, <<"stabbed">>, <<"knife", "attack">> })), 90>>,
  <<Re(Then(W({"assault", "assaulted", "beaten", "beating"}),
            W({"charged", "arrest", "police", "victim", "hospital"}))), 85>>,
  <<Re(Then(W({"charged", "multiple", "violent"}), W({"assault", "assaults"}))), 85>>,
  <<Re(Then(W({"assault"}), W({"charged", "arrest", "melee", "victim"}))), 85>>,
  <<Re(W({"kidnap", "abduct", "hostage"})), 90>>,
  <<Re(Alt({ <<"sexual", "assault">>, <<"rape">>, <<"sex", "assault">>, <<"sexual", "exploitation">> })), 90>>,
  <<Re(Alt({ <<"human", "remains", "found", "dead">>, <<"body", "found", "dead">>,
             <<"person", "found", "dead">>, <<"child", "found", "dead">>,
             <<"man", "found", "dead">>, <<"woman", "found", "dead">> })), 80>>,
  <<Re(Then(Alt({ <<"found", "dead">> }), W({"police", "investigate", "home", "property"}))), 80>>,
  <<Re(Or(Alt({ <<"armed", "robbery">> }), Then(W({"robbery"}), W({"weapon"})))), 85>>,
  <<Re(Then(Alt({ <<"hit", "and", "run">> }), W({"dies", "dead", "fatal", "kill", "charged"}))), 85>>,
  <<Re(Then(W({"attack", "attacked"}), W({"charged", "arrest", "victim", "injur", "police", "guard"}))), 80>>,
  <<Re(Alt({ <<"guard", "attacked">>, <<"officer", "attacked">>, <<"worker", "attacked">> })), 80>>,
  <<Re(Then(Alt({ <<"intimate", "partner">>, <<"domestic">> }), W({"violence", "assault"}))), 85>>,
  <<Re(Then(W({"fleeing", "fled"}), W({"violence", "assault"}))), 80>>,
  <<Re(Then(W({"baby", "child", "infant"}), W({"abandoned", "abandonment"}))), 85>>,
  <<Re(Then(Alt({ <<"plead", "guilty">>, <<"pleads", "guilty">> }), W({"assault", "attack", "violence"}))), 85>>,
  <<Re(Then(W({"arrested"}), W({"laceration", "hospitalized", "injur"}))), 80>> >>

PROPERTY_CRIME_PATTERNS == <<
  <<Re(Then(W({"theft", "stolen", "shoplifting", "larceny"}),
            W({"police", "arrest", "charged", "suspect", "investigating"}))), 85>>,
  <<Re(Then(W({"police", "investigating"}), W({"stolen", "theft"}))), 80>>,
  <<Re(Alt({ <<"mezuzah", "stolen">>, <<"item", "stolen">>, <<"items", "stolen">>, <<"property", "stolen">> })), 80>>,
  <<Re(Then(Alt({ <<"\\d+", "arrest">>, <<"\\d+", "arrests">> }), W({"theft", "retail", "shoplifting"}))), 85>>,
  <<Re(Then(Then(W({"arrest", "arrests"}), W({"charge", "charges", "laid"})), W({"theft", "retail"}))), 85>>,
  <<Re(NotAhead(Or(Alt({ <<"burglary">>, <<"break", "in">> }), Then(W({"breaking"}), W({"entering"}))),
                W({"water", "pipe", "main"}))), 85>>,
  <<Re(NotAhead(W({"arson"}), W({"water", "pipe"}))), 80>>,
  <<Re(Then(W({"vandalism", "vandalized"}), W({"charged", "arrest"}))), 80>>,
  <<Re(Alt({ <<"car", "theft">>, <<"auto", "theft">>, <<"vehicle", "stolen">>, <<"carjacking">> })), 85>>,
  <<Re(Then(W({"\\$[\\d,]+"}), Alt({ <<"stolen">>, <<"theft">>, <<"booze", "stolen">> }))), 85>>,
  <<Re(Then(W({"rammed", "ram"}), W({"stolen", "police"}))), 80>>,
  <<Re(Then(Alt({ <<"stolen", "vehicle">> }), W({"ram", "cruiser", "police"}))), 80>> >>

DRUG_CRIME_PATTERNS == <<
  <<Re(Alt({ <<"drug", "bust">>, <<"drug", "raid">>, <<"drug", "seizure">> })), 90>>,
  <<Re(Then(W({"fentanyl", "cocaine", "heroin", "meth", "methamphetamine"}),
            W({"seiz", "bust", "arrest", "charged", "trafficking"}))), 90>>,
  <<Re(Then(W({"trafficking", "trafficker", "dealer"}), W({"drug", "narcotic"}))), 85>>,
  <<Re(Then(W({"possession"}), W({"intent", "purpose"}))), 80>>,
  <<Re(Then(Then(W({"seize"}), W({"\\$[\\d,]+"})), W({"drug", "cocaine", "fentanyl"}))), 90>>,
  <<Re(Then(W({"seize", "seizes"}), W({"fentanyl", "cocaine", "heroin", "drug", "narcotic", "doses"}))), 90>>,
  <<Re(Then(W({"fentanyl", "cocaine", "heroin"}), W({"doses", "seized", "weapons"}))), 90>>,
  <<Re(Then(W({"intercept"}), W({"fentanyl", "cocaine", "trafficker", "drug"}))), 90>>,
  <<Re(Alt({ <<"fentanyl", "trafficker">>, <<"drug", "trafficker">> })), 90>> >>

GANG_PATTERNS == <<
  <<Re(Alt({ <<"gang", "related">>, <<"gang", "member">>, <<"gang", "shooting">>, <<"gang", "violence">> })), 90>>,
  <<Re(Alt({ <<"drive", "by">>, <<"turf", "war">>, <<"gang", "rivalry">> })), 85>> >>

ORGANIZED_CRIME_PATTERNS == <<
  <<Re(Alt({ <<"organized", "crime">>, <<"crime", "syndicate">>, <<"crime", "ring">> })), 85>>,
  <<Re(Alt({ <<"mafia">>, <<"mob", "boss">>, <<"cartel">> })), 85>>,
  <<Re(Alt({ <<"human", "trafficking">>, <<"trafficking", "ring">> })), 85>>,
  <<Re(Alt({ <<"money", "laundering">>, <<"rico">> })), 80>> >>

CRIMINAL_JUSTICE_PATTERNS == <<
  <<Re(W({"charged", "arrest", "arrested"})), 70>>,
  <<Re(W({"sentenced", "sentencing", "conviction", "convicted"})), 75>>,
  <<Re(W({"trial", "verdict", "arraignment"})), 70>>,
  <<Re(Alt({ <<"plead", "guilty">>, <<"pleads", "guilty">>, <<"pleaded", "guilty">> })), 80>>,
  <<Re(W({"warrant"})), 65>>,
  <<Re(Then(W({"standoff"}), W({"arrest", "charged", "custody"}))), 80>>,
  <<Re(Alt({ <<"police", "standoff">>, <<"armed", "standoff">> })), 75>>,
  <<Re(Then(W({"escape", "escapes"}), W({"jail", "prison", "custody"}))), 85>>,
  <<Re(Alt({ <<"jail", "escape">>, <<"prison", "escape">> })), 85>> >>

\* Peripheral patterns
IMPAIRED_DRIVING_PATTERNS == <<
  Re(Alt({ <<"impaired", "driving">>, <<"drunk", "driving">>, <<"dui">>, <<"dwi">> })),
  Re(Then(W({"impaired", "intoxicated"}), W({"driver", "driving", "motorist"}))) >>

INTERNATIONAL_INDICATORS == <<
  Re(W({"minneapolis"})), Re(W({"\\bus\\b"})), Re(W({"u.s."})), Re(W({"american"})),
  Re(W({"mexico"})), Re(W({"dutch"})), Re(W({"european"})), Re(W({"yemen"})),
  Re(W({"myanmar"})), Re(W({"congo"})), Re(W({"venezuela"})), Re(W({"israel"})),
  Re(W({"gaza"})), Re(W({"greenland"})), Re(W({"danish"})), Re(W({"thailand"})),
  Re(W({"cambodia"})), Re(W({"malaysia"})) >>

POLICY_PATTERNS == <<
  Re(Alt({ <<"crime", "rate">>, <<"crime", "statistics">>, <<"crime", "down">>, <<"crime", "up">> })),
  Re(Alt({ <<"police", "budget">>, <<"policing", "policy">>, <<"crime", "policy">> })),
  Re(Alt({ <<"crackdown", "on">>, <<"spike", "in">>, <<"rise", "in">>, <<"wave", "of">> })),
  Re(Then(W({"mayor", "council", "government"}), W({"crime", "police"}))),
  Re(Then(W({"declares", "declared", "address", "addressing"}), W({"epidemic", "crisis"}))),
  Bol(Alt({ <<"in", "the", "news", "today:">> })) >>

\* Peripheral crime patterns - not core but still crime-related
PERIPHERAL_SPECIFIC_PATTERNS == <<
  Re(Then(W({"stole"}), W({"returned", "return"}))),
  Re(Then(Alt({ <<"await", "crown">>, <<"awaits", "crown">> }), W({"decision", "charges"}))),
  Re(Then(Alt({ <<"law", "licence">>, <<"licence", "assessment">> }), W({"abuse", "assault"}))),
  Re(Then(W({"cleared", "exonerated"}), W({"arrest", "force"}))),
  Re(Then(Alt({ <<"year", "in", "review">> }), Alt({ <<"crime">>, <<"high", "crimes">> }))) >>

\* Canadian location indicators
CANADIAN_LOCATIONS == <<
  Re(W({"sudbury"})), Re(W({"sault"})), Re(Alt({ <<"north", "bay">> })), Re(W({"toronto"})),
  Re(W({"ottawa"})), Re(W({"hamilton"})), Re(W({"barrie"})), Re(W({"oshawa"})),
  Re(Alt({ <<"thunder", "bay">> })), Re(W({"montreal"})), Re(W({"vancouver"})), Re(W({"calgary"})),
  Re(W({"edmonton"})), Re(W({"winnipeg"})), Re(W({"halifax"})), Re(W({"regina"})),
  Re(W({"saskatoon"})), Re(W({"brampton"})), Re(W({"mississauga"})), Re(W({"london"})),
  Re(W({"ontario"})), Re(W({"quebec"})), Re(W({"manitoba"})), Re(W({"alberta"})),
  Re(Alt({ <<"british", "columbia">> })), Re(Alt({ <<"nova", "scotia">> })),
  Re(W({"ont."})), Re(W({"que."})) >>

\* The list literal handed to match_any for the national tier.
NATIONAL_KEYWORDS == <<
  Re(W({"rcmp"})), Re(W({"federal"})), Re(Alt({ <<"across", "canada">> })), Re(W({"nationwide"})) >>

\* Patterns written inline in classify_article.
STRONG_KEYWORDS == Re(W({"murder", "homicide", "assault", "theft", "robbery", "arrest", "charged"}))
INFRASTRUCTURE_BREAK == Re(Then(Alt({ <<"water", "main">>, <<"pipe">>, <<"infrastructure">> }), W({"break", "burst"})))
SPORTS_TEAM == Re(Then(W({"trapper", "trappers", "wolves", "greyhounds", "battalion", "battalions"}),
                       W({"hockey", "\\d{4}"})))
SHOOTS_DOWN == Re(Then(Alt({ <<"shoot", "down">>, <<"shoots", "down">> }), W({"rumour", "bill", "proposal"})))
ESCAPE_CUSTODY == Re(Then(W({"escape", "escapes"}), W({"jail", "prison", "custody"})))
STANDOFF_ARREST == Re(Then(W({"standoff"}), W({"arrest", "charged"})))
STANDALONE_INCIDENT == Re(W({"standoff", "escape"}))
THEFT_CUE == Re(W({"stole", "theft"}))
VIOLENCE_CUE == Re(W({"assault", "abuse", "violence"}))
HARD_INCIDENT == Re(W({"charged", "arrest", "sentenced", "murder", "shot", "stabbed"}))
COLLISION_CUE == Re(Alt({ <<"collision">>, <<"crash">>, <<"hit", "and", "run">>, <<"injur">>,
                          <<"fatal">>, <<"kill">>, <<"dies">> }))

\* ---------------------------------------------------------- pattern registry
\* The module-level lists are the only mutable part of the pattern tables
\* (their str and tuple entries are immutable): a list is kept as the sequence
\* of the slots it holds, each slot naming an entry of Rules.
Rules ==
  [ EXCLUDE_TITLE_PATTERNS |-> EXCLUDE_TITLE_PATTERNS,
    NON_CRIME_TITLE_PATTERNS |-> NON_CRIME_TITLE_PATTERNS,
    VIOLENT_CRIME_PATTERNS |-> VIOLENT_CRIME_PATTERNS,
    PROPERTY_CRIME_PATTERNS |-> PROPERTY_CRIME_PATTERNS,
    DRUG_CRIME_PATTERNS |-> DRUG_CRIME_PATTERNS,
    GANG_PATTERNS |-> GANG_PATTERNS,
    ORGANIZED_CRIME_PATTERNS |-> ORGANIZED_CRIME_PATTERNS,
    CRIMINAL_JUSTICE_PATTERNS |-> CRIMINAL_JUSTICE_PATTERNS,
    IMPAIRED_DRIVING_PATTERNS |-> IMPAIRED_DRIVING_PATTERNS,
    INTERNATIONAL_INDICATORS |-> INTERNATIONAL_INDICATORS,
    POLICY_PATTERNS |-> POLICY_PATTERNS,
    PERIPHERAL_SPECIFIC_PATTERNS |-> PERIPHERAL_SPECIFIC_PATTERNS,
    CANADIAN_LOCATIONS |-> CANADIAN_LOCATIONS ]

PatternRegistry == [ name \in DOMAIN Rules |-> [ i \in 1..Len(Rules[name]) |-> i ] ]

\* The list `name' as the registry reg holds it.
Table(reg, name) == [ i \in 1..Len(reg[name]) |-> Rules[name][reg[name][i]] ]

\* The mean of two confidences.
Mean(a, b) == (a + b) \div 2

Max(a, b) == IF a >= b THEN a ELSE b
\* The cap of the international branch read as a floor.
Larger(a, b) == IF a >= b THEN a ELSE b
Min(a, b) == IF a <= b THEN a ELSE b

\* match_patterns: (matched, max_confidence) over <<pattern, conf>> rules
match_patterns(text, patterns) ==
  LET hits == { i \in 1..Len(patterns) : Search(patterns[i][1], text) }
      max_conf == IF hits = {} THEN 0
                  ELSE CHOOSE m \in { patterns[i][2] : i \in hits } :
                         \A n \in { patterns[i][2] : i \in hits } : m >= n
  IN  <<max_conf > 0, max_conf>>

\* match_any: some pattern of the list is found in the text
match_any(text, patterns) == \E i \in 1..Len(patterns) : Search(patterns[i], text)

\* ------------------------------------------------------------------- strings
\* Pieces of words that slicing can leave behind.
Pieces == {"toront", "o"}

\* w[:r] for 0 < r < Len(w)
CutWord(w, r) == CHOOSE p \in Pieces : Len(p) = r /\ \E q \in Pieces : p \o q = w

\* The words of (w1 + " " + w2 + ...)[:r]
RECURSIVE TakeWords(_, _)
TakeWords(ws, r) ==
  IF ws = <<>> \/ r <= 0 THEN <<>>
  ELSE LET w == Head(ws)
       IN  IF Len(w) > r THEN <<CutWord(w, r)>>
           ELSE <<w>> \o TakeWords(Tail(ws), r - Len(w) - 1)

\* s[:n]
Slice(s, n) ==
  IF s.pad >= n THEN Str(n, <<>>) ELSE Str(s.pad, TakeWords(s.words, n - s.pad))

\* The text a search runs over.
WordsOf(s) == (IF s.pad > 0 THEN <<FillerWord>> ELSE <<>>) \o s.words

\* The body prefix classify_article keeps.
BodyWindow == 500

\* f"{title} {body}": the title and the whole body.
CombinedWhole(title, body) == WordsOf(title) \o WordsOf(body)

\* f"{title} {body[:500]}"
Combined(title, body) == WordsOf(title) \o WordsOf(Slice(body, BodyWindow))

\* ------------------------------------------------------- stages, on values
\* Step 1: the three exclusion checks on the title.
StructuralExclusion(reg, title) ==
  \E i \in 1..Len(Table(reg, "EXCLUDE_TITLE_PATTERNS")) :
     Search(Table(reg, "EXCLUDE_TITLE_PATTERNS")[i], WordsOf(title))

\* The second exclusion check without its strong-keyword test.
NonCrimeExclusionUnconditional(reg, title) ==
  \E i \in 1..Len(Table(reg, "NON_CRIME_TITLE_PATTERNS")) :
     Search(Table(reg, "NON_CRIME_TITLE_PATTERNS")[i], WordsOf(title))

NonCrimeExclusion(reg, title) ==
  \E i \in 1..Len(Table(reg, "NON_CRIME_TITLE_PATTERNS")) :
     /\ Search(Table(reg, "NON_CRIME_TITLE_PATTERNS")[i], WordsOf(title))
     /\ ~Search(STRONG_KEYWORDS, WordsOf(title))

FalsePositiveExclusion(title) ==
  \/ Search(INFRASTRUCTURE_BREAK, WordsOf(title))
  \/ Search(SPORTS_TEAM, WordsOf(title))
  \/ Search(SHOOTS_DOWN, WordsOf(title))

\* Step 1 without its third group of checks.
ExcludedWithoutFalsePositives(reg, title) ==
  StructuralExclusion(reg, title) \/ NonCrimeExclusion(reg, title)

Excluded(reg, title) ==
  StructuralExclusion(reg, title) \/ NonCrimeExclusion(reg, title) \/ FalsePositiveExclusion(title)

\* Step 2: the categories in registry order, then the justice modifier.
CoreGroups ==
  << <<"VIOLENT_CRIME_PATTERNS", "violent_crime">>,
     <<"PROPERTY_CRIME_PATTERNS", "property_crime">>,
     <<"DRUG_CRIME_PATTERNS", "drug_crime">>,
     <<"GANG_PATTERNS", "gang_violence">>,
     <<"ORGANIZED_CRIME_PATTERNS", "organized_crime">> >>

RECURSIVE MatchCore(_, _, _, _)
MatchCore(reg, text, k, acc) ==
  IF k > Len(CoreGroups) THEN acc
  ELSE LET m == match_patterns(text, Table(reg, CoreGroups[k][1]))
       IN  MatchCore(reg, text, k + 1,
             IF m[1]
             THEN [crime_types |-> Append(acc.crime_types, CoreGroups[k][2]),
                   max_confidence |-> Max(acc.max_confidence, m[2])]
             ELSE acc)

\* The justice modifier raising max_confidence on every match of its table.
JusticeModifierAlwaysScores(reg, text, acc) ==
  LET m == match_patterns(text, Table(reg, "CRIMINAL_JUSTICE_PATTERNS"))
      escape == Search(ESCAPE_CUSTODY, text)
      types1 == IF escape THEN Append(acc.crime_types, "other_crime") ELSE acc.crime_types
      types2 == IF types1 # <<>> \/ Search(STANDALONE_INCIDENT, text)
                THEN Append(types1, "criminal_justice") ELSE types1
  IN  IF m[1] THEN [crime_types |-> types2, max_confidence |-> Max(acc.max_confidence, m[2])] ELSE acc

\* The justice modifier adding criminal_justice on every match of its table.
JusticeModifierUnguarded(reg, text, acc) ==
  LET m == match_patterns(text, Table(reg, "CRIMINAL_JUSTICE_PATTERNS"))
      escape == Search(ESCAPE_CUSTODY, text)
      standoff == Search(STANDOFF_ARREST, text)
      types1 == IF escape THEN Append(acc.crime_types, "other_crime") ELSE acc.crime_types
      conf1 == IF escape \/ standoff THEN Max(acc.max_confidence, m[2]) ELSE acc.max_confidence
  IN  IF m[1] THEN [crime_types |-> Append(types1, "criminal_justice"), max_confidence |-> conf1] ELSE acc

\* The justice modifier without the other_crime label of a custody escape.
JusticeModifierWithoutOtherCrime(reg, text, acc) ==
  LET m == match_patterns(text, Table(reg, "CRIMINAL_JUSTICE_PATTERNS"))
      escape == Search(ESCAPE_CUSTODY, text)
      standoff == Search(STANDOFF_ARREST, text)
      conf1 == IF escape \/ standoff THEN Max(acc.max_confidence, m[2]) ELSE acc.max_confidence
      types2 == IF acc.crime_types # <<>> \/ Search(STANDALONE_INCIDENT, text)
                THEN Append(acc.crime_types, "criminal_justice") ELSE acc.crime_types
  IN  IF m[1] THEN [crime_types |-> types2, max_confidence |-> conf1] ELSE acc

JusticeModifier(reg, text, acc) ==
  LET m == match_patterns(text, Table(reg, "CRIMINAL_JUSTICE_PATTERNS"))
      escape == Search(ESCAPE_CUSTODY, text)
      standoff == Search(STANDOFF_ARREST, text)
      types1 == IF escape THEN Append(acc.crime_types, "other_crime") ELSE acc.crime_types
      conf1 == IF escape \/ standoff THEN Max(acc.max_confidence, m[2]) ELSE acc.max_confidence
      types2 == IF types1 # <<>> \/ Search(STANDALONE_INCIDENT, text)
                THEN Append(types1, "criminal_justice") ELSE types1
  IN  IF m[1] THEN [crime_types |-> types2, max_confidence |-> conf1] ELSE acc

MatchCategories(reg, title) ==
  JusticeModifier(reg, WordsOf(title),
                  MatchCore(reg, WordsOf(title), 1, [crime_types |-> <<>>, max_confidence |-> 0]))

\* Step 3: which branch of the override cascade runs.
is_international(reg, title) == match_any(WordsOf(title), Table(reg, "INTERNATIONAL_INDICATORS"))
is_impaired(reg, title) == match_any(WordsOf(title), Table(reg, "IMPAIRED_DRIVING_PATTERNS"))
is_policy(reg, title) == match_any(WordsOf(title), Table(reg, "POLICY_PATTERNS"))
is_peripheral_specific(reg, title) == match_any(WordsOf(title), Table(reg, "PERIPHERAL_SPECIFIC_PATTERNS"))

\* The cascade with the impaired-driving check ahead of the two overrides.
CascadeBranchImpairedFirst(reg, title, crime_types) ==
  CASE is_impaired(reg, title) ->
         IF Search(COLLISION_CUE, WordsOf(title)) THEN "impaired_collision" ELSE "impaired"
    [] OTHER ->
  CASE is_peripheral_specific(reg, title) -> "peripheral_specific"
    [] OTHER ->
  CASE is_policy(reg, title) /\ ~Search(HARD_INCIDENT, WordsOf(title)) -> "policy_override"
    [] OTHER ->
  CASE is_international(reg, title) /\ crime_types # <<>> -> "international"
    [] OTHER ->
  CASE is_policy(reg, title) -> "residual_policy"
    [] OTHER ->
  CASE crime_types # <<>> -> "default"
    [] OTHER -> "none"

\* The cascade without the policy override.
CascadeBranchWithoutPolicyOverride(reg, title, crime_types) ==
  CASE is_peripheral_specific(reg, title) -> "peripheral_specific"
    [] OTHER ->
  CASE is_impaired(reg, title) ->
         IF Search(COLLISION_CUE, WordsOf(title)) THEN "impaired_collision" ELSE "impaired"
    [] OTHER ->
  CASE is_international(reg, title) /\ crime_types # <<>> -> "international"
    [] OTHER ->
  CASE is_policy(reg, title) -> "residual_policy"
    [] OTHER ->
  CASE crime_types # <<>> -> "default"
    [] OTHER -> "none"

\* The cascade with the impaired-driving branch blind to the collision cue.
CascadeBranchImpairedNoCue(reg, title, crime_types) ==
  CASE is_peripheral_specific(reg, title) -> "peripheral_specific"
    [] OTHER ->
  CASE is_policy(reg, title) /\ ~Search(HARD_INCIDENT, WordsOf(title)) -> "policy_override"
    [] OTHER ->
  CASE is_impaired(reg, title) -> "impaired"
    [] OTHER ->
  CASE is_international(reg, title) /\ crime_types # <<>> -> "international"
    [] OTHER ->
  CASE is_policy(reg, title) -> "residual_policy"
    [] OTHER ->
  CASE crime_types # <<>> -> "default"
    [] OTHER -> "none"

\* The cascade with the core default tried before the residual policy branch.
CascadeBranchDefaultBeforeResidual(reg, title, crime_types) ==
  CASE is_peripheral_specific(reg, title) -> "peripheral_specific"
    [] OTHER ->
  CASE is_policy(reg, title) /\ ~Search(HARD_INCIDENT, WordsOf(title)) -> "policy_override"
    [] OTHER ->
  CASE is_impaired(reg, title) ->
         IF Search(COLLISION_CUE, WordsOf(title)) THEN "impaired_collision" ELSE "impaired"
    [] OTHER ->
  CASE is_international(reg, title) /\ crime_types # <<>> -> "international"
    [] OTHER ->
  CASE crime_types # <<>> -> "default"
    [] OTHER ->
  CASE is_policy(reg, title) -> "residual_policy"
    [] OTHER -> "none"

\* The cascade with a core default that does not look at the category list.
CascadeBranchDefaultAlways(reg, title, crime_types) ==
  CASE is_peripheral_specific(reg, title) -> "peripheral_specific"
    [] OTHER ->
  CASE is_policy(reg, title) /\ ~Search(HARD_INCIDENT, WordsOf(title)) -> "policy_override"
    [] OTHER ->
  CASE is_impaired(reg, title) ->
         IF Search(COLLISION_CUE, WordsOf(title)) THEN "impaired_collision" ELSE "impaired"
    [] OTHER ->
  CASE is_international(reg, title) /\ crime_types # <<>> -> "international"
    [] OTHER ->
  CASE is_policy(reg, title) -> "residual_policy"
    [] OTHER -> "default"

CascadeBranch(reg, title, crime_types) ==
  CASE is_peripheral_specific(reg, title) -> "peripheral_specific"
    [] OTHER ->
  CASE is_policy(reg, title) /\ ~Search(HARD_INCIDENT, WordsOf(title)) -> "policy_override"
    [] OTHER ->
  CASE is_impaired(reg, title) ->
         IF Search(COLLISION_CUE, WordsOf(title)) THEN "impaired_collision" ELSE "impaired"
    [] OTHER ->
  CASE is_international(reg, title) /\ crime_types # <<>> -> "international"
    [] OTHER ->
  CASE is_policy(reg, title) -> "residual_policy"
    [] OTHER ->
  CASE crime_types # <<>> -> "default"
    [] OTHER -> "none"

\* The peripheral-specific categories added to what the matcher found.
PeripheralCrimeTypesMerged(title) ==
  MatchCategories(PatternRegistry, title).crime_types \o <<"criminal_justice">>

\* The peripheral-specific override leaving no category.
PeripheralCrimeTypesEmpty(title) == <<>>

PeripheralCrimeTypes(title) ==
  IF Search(THEFT_CUE, WordsOf(title)) THEN <<"property_crime", "criminal_justice">>
  ELSE IF Search(VIOLENCE_CUE, WordsOf(title)) THEN <<"violent_crime", "criminal_justice">>
  ELSE <<"criminal_justice">>

\* The location tier with the international indicators searched in the window.
LocationTierByWindow(reg, combined, international, location) ==
  IF match_any(combined, Table(reg, "CANADIAN_LOCATIONS")) THEN "local_canada"
  ELSE IF match_any(combined, NATIONAL_KEYWORDS) THEN "national_canada"
  ELSE IF match_any(combined, Table(reg, "INTERNATIONAL_INDICATORS")) THEN "international"
  ELSE location

\* Step 4: the location tier.
LocationTier(reg, combined, international, location) ==
  IF match_any(combined, Table(reg, "CANADIAN_LOCATIONS")) THEN "local_canada"
  ELSE IF match_any(combined, NATIONAL_KEYWORDS) THEN "national_canada"
  ELSE IF international THEN "international"
  ELSE location

\* -------------------------------------------------------------------- inputs
\* Headline phrases a title is put together from (an empty word is one more
\* space), and the bodies: absent, empty, a place name at the start of the
\* body, a place name that just fits into, or is cut by, the body window, and
\* a body that differs from the latter only past the window.
TitlePhrases ==
  { <<"hiring">>, <<"festival">>, <<"pipe", "burst">>,
    <<"murder">>, <<"theft">>, <<"assault">>, <<"arrested">>, <<"police">>,
    <<"standoff">>, <<"escapes", "custody">>,
    <<"dui">>, <<"dui", "crash">>, <<"mexico">>,
    <<"mayor", "police">>, <<"cleared", "arrested">>, <<"">> }

RECURSIVE Headlines(_)
Headlines(n) ==
  IF n = 0 THEN { <<>> }
  ELSE LET shorter == Headlines(n - 1)
       IN  shorter \cup { h \o ph : <<h, ph>> \in shorter \X TitlePhrases }

Titles == { Str(0, h) : h \in Headlines(MaxTitlePhrases) } \cup { None }

Bodies ==
  { None, EmptyStr, Str(0, <<"toronto">>), Str(0, <<"rcmp">>), Str(0, <<"mexico">>),
    Str(493, <<"toronto">>), Str(494, <<"toronto">>), Str(494, <<"toront">>) }

\* What the interleaved callers of SpecConc pass.
ConcTitles ==
  { Str(0, <<"hiring">>), Str(0, <<"dui", "crash", "murder">>),
    Str(0, <<"mayor", "police", "theft">>), Str(0, <<"mexico", "police", "standoff">>),
    Str(0, <<"cleared", "arrested">>) }
ConcBodies == { None, Str(0, <<"toronto">>) }

Callers == 1..NumCallers

\* --------------------------------------------------------------------- state
VARIABLES
  registry,   \* the shared pattern tables
  heap,       \* the list objects: heap[c][i] is the content of the i-th list that
              \* caller c's call created; <<c, i>> is its address
  pc,         \* per caller: idle, exclusion, matcher, cascade, location, done, raised
  arg,        \* per caller: the title and body it passed
  frame,      \* per caller: the locals of its classify_article call
  result,     \* per caller: its Classification object
  trace,      \* per caller: the stages and cascade branches it has run
  sidecar,    \* per sidecar server: its AppState, lifecycle and last responses
  ml          \* the last call of a sidecar normalizer or statistical classifier

vars == <<registry, heap, pc, arg, frame, result, trace, sidecar, ml>>

\* dataclass Classification: crime_types is a reference to a list.
Classification(relevance, crime_types) ==
  [relevance |-> relevance, crime_types |-> crime_types, confidence |-> 0, location |-> "not_specified"]

\* The address of no list.
Null == <<0, 0>>

\* The address of the next list caller c creates, the heap after it created
\* one with content v, and the content at an address.
Fresh(c, h) == <<c, Len(h[c]) + 1>>
Alloc(h, c, v) == [h EXCEPT ![c] = Append(@, v)]
Deref(h, a) == h[a[1]][a[2]]

\* One list, made once, as the default of every object.
SharedDefault(c, h) == <<1, 1>>

\* field(default_factory=list): the address of a list made for this object.
DefaultFactory(c, h) == Fresh(c, h)

NoArg == [title |-> None, body |-> None]
NoFrame == [title |-> EmptyStr, body |-> EmptyStr, combined |-> <<>>,
            crime_types |-> Null, max_confidence |-> 0, is_international |-> FALSE]
NoResult == [relevance |-> "unset", crime_types |-> Null, confidence |-> 0, location |-> "unset"]

\* The sidecar servers: the model artifacts lifespan loads, in order; whether
\* lifespan wraps the loads in try/except and keeps models_loaded; whether
\* classify tests models_loaded before it uses the classifiers.
Servers == {"crime-ml", "mining-ml", "coforge-ml"}

ServerDef ==
  [ s \in Servers |->
      CASE s = "crime-ml" ->
             [artifacts |-> <<"relevance", "crime_type", "location">>,
              catches |-> FALSE, checks_flag |-> FALSE]
        [] s = "mining-ml" ->
             [artifacts |-> <<"relevance", "mining_stage", "commodity", "location">>,
              catches |-> TRUE, checks_flag |-> TRUE]
        [] s = "coforge-ml" ->
             [artifacts |-> <<"relevance", "audience", "topic", "industry">>,
              catches |-> TRUE, checks_flag |-> TRUE] ]

\* The ClassifyResponse a server builds when models_loaded is False: the
\* labels, the confidences (in hundredths), the label lists and score maps.
NeutralResponse ==
  [ s \in Servers |->
      CASE s = "mining-ml" ->
             [labels |-> <<"not_mining", "unspecified", "not_specified">>,
              confidences |-> <<0, 0, 0>>, lists |-> << <<>> >>, scores |-> << <<>> >>]
        [] s = "coforge-ml" ->
             [labels |-> <<"not_relevant", "hybrid">>,
              confidences |-> <<0, 0>>, lists |-> << <<>>, <<>> >>, scores |-> << <<>>, <<>> >>]
        [] OTHER -> <<>> ]

\* state = AppState(): no classifier, no startup time, models_loaded False
\* where the class has it; the server process not yet started.
AppState ==
  [phase |-> "stopped", next |-> 1, classifiers |-> {}, models_loaded |-> FALSE,
   started |-> FALSE, response |-> "none", payload |-> <<>>, health |-> "none"]

\* No normalizer or statistical classifier has been called.
NoCall ==
  [op |-> "none", who |-> "none", variant |-> "none", text |-> None, cleaned |-> <<>>,
   invoked |-> FALSE, method |-> "none", raw |-> <<>>, result |-> <<>>]

Init ==
  /\ sidecar = [s \in Servers |-> AppState]
  /\ ml = NoCall
  /\ registry = PatternRegistry
  /\ heap = [c \in Callers |-> <<>>]
  /\ pc = [c \in Callers |-> "idle"]
  /\ arg = [c \in Callers |-> NoArg]
  /\ frame = [c \in Callers |-> NoFrame]
  /\ result = [c \in Callers |-> NoResult]
  /\ trace = [c \in Callers |-> <<>>]

\* classify_article(t, b) is entered with some title and body of the given
\* sets: lines 190-194.  Slicing or formatting a value that is not a str
\* raises TypeError out of the call.
Call(c, titles, bodies) ==
  /\ pc[c] = "idle"
  /\ \E t \in titles, b \in bodies :
       LET title == OrEmpty(t)
           body == OrEmpty(b)
           a == DefaultFactory(c, heap)
       IN  /\ arg' = [arg EXCEPT ![c] = [title |-> t, body |-> b]]
           /\ IF title.kind = "str" /\ body.kind = "str"
              THEN /\ frame' = [frame EXCEPT ![c] = [NoFrame EXCEPT !.title = title, !.body = body,
                                                                    !.combined = Combined(title, body)]]
                   /\ heap' = IF a[2] > Len(heap[a[1]]) THEN Alloc(heap, a[1], <<>>) ELSE heap
                   /\ result' = [result EXCEPT ![c] = Classification("not_crime", a)]
                   /\ pc' = [pc EXCEPT ![c] = "exclusion"]
              ELSE /\ pc' = [pc EXCEPT ![c] = "raised"]
                   /\ UNCHANGED <<frame, heap, result>>
  /\ trace' = [trace EXCEPT ![c] = <<"call">>]
  /\ UNCHANGED <<registry, sidecar, ml>>

\* Step 1 (lines 196-214): return the fresh result, or go on.
ExclusionStage(c) ==
  /\ pc[c] = "exclusion"
  /\ pc' = [pc EXCEPT ![c] = IF Excluded(registry, frame[c].title) THEN "done" ELSE "matcher"]
  /\ trace' = [trace EXCEPT ![c] = Append(@, "exclusion")]
  /\ UNCHANGED <<registry, heap, arg, frame, result, sidecar, ml>>

\* Step 2 (lines 216-261): crime_types = [] and the appends to it.
CategoryMatcher(c) ==
  /\ pc[c] = "matcher"
  /\ LET m == MatchCategories(registry, frame[c].title)
     IN  /\ heap' = Alloc(heap, c, m.crime_types)
         /\ frame' = [frame EXCEPT ![c].crime_types = Fresh(c, heap),
                                   ![c].max_confidence = m.max_confidence]
  /\ pc' = [pc EXCEPT ![c] = "cascade"]
  /\ trace' = [trace EXCEPT ![c] = Append(@, "matcher")]
  /\ UNCHANGED <<registry, arg, result, sidecar, ml>>

\* Step 3 (lines 263-309).
OverrideCascade(c) ==
  /\ pc[c] = "cascade"
  /\ LET f == frame[c]
         types == Deref(heap, f.crime_types)
         branch == CascadeBranch(registry, f.title, types)
         intl == is_international(registry, f.title)
         fresh == Fresh(c, heap)
     IN  /\ trace' = [trace EXCEPT ![c] = Append(@, branch)]
         /\ CASE branch = "peripheral_specific" ->
                   /\ heap' = Alloc(heap, c, PeripheralCrimeTypes(f.title))
                   /\ result' = [result EXCEPT ![c].relevance = "peripheral_crime",
                                               ![c].crime_types = fresh,
                                               ![c].confidence = 60]
                   /\ frame' = [frame EXCEPT ![c].is_international = intl]
                   /\ pc' = [pc EXCEPT ![c] = "done"]
              [] branch = "policy_override" ->
                   /\ heap' = IF types # <<>> THEN heap ELSE Alloc(heap, c, <<>>)
                   /\ result' = [result EXCEPT ![c].relevance = "peripheral_crime",
                                               ![c].crime_types = IF types # <<>> THEN f.crime_types ELSE fresh,
                                               ![c].confidence = 50]
                   /\ frame' = [frame EXCEPT ![c].is_international = intl]
                   /\ pc' = [pc EXCEPT ![c] = "done"]
              [] branch = "impaired_collision" ->
                   /\ heap' = [heap EXCEPT ![f.crime_types[1]][f.crime_types[2]] = Append(@, "violent_crime")]
                   /\ result' = [result EXCEPT ![c].relevance = "core_street_crime"]
                   /\ frame' = [frame EXCEPT ![c].is_international = intl,
                                             ![c].max_confidence = Max(@, 80)]
                   /\ pc' = [pc EXCEPT ![c] = "location"]
              [] branch = "impaired" ->
                   /\ heap' = Alloc(heap, c, <<"criminal_justice">>)
                   /\ result' = [result EXCEPT ![c].relevance = "peripheral_crime"]
                   /\ frame' = [frame EXCEPT ![c].is_international = intl,
                                             ![c].crime_types = fresh,
                                             ![c].max_confidence = 70]
                   /\ pc' = [pc EXCEPT ![c] = "location"]
              [] branch = "international" ->
                   /\ result' = [result EXCEPT ![c].relevance = "peripheral_crime"]
                   /\ frame' = [frame EXCEPT ![c].is_international = intl,
                                             ![c].max_confidence = Min(@, 65)]
                   /\ pc' = [pc EXCEPT ![c] = "location"]
                   /\ UNCHANGED heap
              [] branch = "residual_policy" ->
                   /\ result' = [result EXCEPT ![c].relevance = "peripheral_crime"]
                   /\ frame' = [frame EXCEPT ![c].is_international = intl,
                                             ![c].max_confidence = 50]
                   /\ pc' = [pc EXCEPT ![c] = "location"]
                   /\ UNCHANGED heap
              [] branch = "default" ->
                   /\ result' = [result EXCEPT ![c].relevance = "core_street_crime"]
                   /\ frame' = [frame EXCEPT ![c].is_international = intl]
                   /\ pc' = [pc EXCEPT ![c] = "location"]
                   /\ UNCHANGED heap
              [] OTHER ->
                   /\ frame' = [frame EXCEPT ![c].is_international = intl]
                   /\ pc' = [pc EXCEPT ![c] = "location"]
                   /\ UNCHANGED <<heap, result>>
  /\ UNCHANGED <<registry, arg, sidecar, ml>>

\* The location tagger also resetting the relevance when it finds no tier.
LocationTaggerResettingRelevance(c) ==
  /\ pc[c] = "location"
  /\ LET tier == LocationTier(registry, frame[c].combined, frame[c].is_international, result[c].location)
     IN  result' = [result EXCEPT
                      ![c].location = tier,
                      ![c].relevance = IF tier = "not_specified" THEN "not_crime" ELSE @,
                      ![c].crime_types = frame[c].crime_types,
                      ![c].confidence = frame[c].max_confidence]
  /\ pc' = [pc EXCEPT ![c] = "done"]
  /\ trace' = [trace EXCEPT ![c] = Append(@, "location")]
  /\ UNCHANGED <<registry, heap, arg, frame, sidecar, ml>>

\* Step 4 (lines 311-322): the location, then the locals go into the result.
LocationTagger(c) ==
  /\ pc[c] = "location"
  /\ result' = [result EXCEPT
                  ![c].location = LocationTier(registry, frame[c].combined,
                                               frame[c].is_international, @),
                  ![c].crime_types = frame[c].crime_types,
                  ![c].confidence = frame[c].max_confidence]
  /\ pc' = [pc EXCEPT ![c] = "done"]
  /\ trace' = [trace EXCEPT ![c] = Append(@, "location")]
  /\ UNCHANGED <<registry, heap, arg, frame, sidecar, ml>>

\* One caller, every title and body.
Next ==
  \/ Call(1, Titles, Bodies)
  \/ ExclusionStage(1)
  \/ CategoryMatcher(1)
  \/ OverrideCascade(1)
  \/ LocationTagger(1)

Spec == Init /\ [][Next]_vars

\* Every caller, interleaved stage by stage.
NextConc ==
  \E c \in Callers :
     \/ Call(c, ConcTitles, ConcBodies)
     \/ ExclusionStage(c)
     \/ CategoryMatcher(c)
     \/ OverrideCascade(c)
     \/ LocationTagger(c)

SpecConc == Init /\ [][NextConc]_vars

\* ------------------------------------------------------------ sidecar servers
ClassifierVars == <<registry, heap, pc, arg, frame, result, trace>>

\* The server process is started and enters lifespan.
LifespanEnter(s) ==
  /\ sidecar[s].phase = "stopped"
  /\ sidecar' = [sidecar EXCEPT ![s].phase = "loading"]
  /\ UNCHANGED <<ClassifierVars, ml>>

\* lifespan setting models_loaded True after the try statement.
LifespanLoadFlagAfterTry(s) ==
  /\ sidecar[s].phase = "loading"
  /\ sidecar[s].next <= Len(ServerDef[s].artifacts)
  /\ \E ok \in BOOLEAN :
        sidecar' =
          IF ok
          THEN [sidecar EXCEPT ![s].classifiers = @ \cup {ServerDef[s].artifacts[sidecar[s].next]},
                               ![s].next = @ + 1]
          ELSE IF ServerDef[s].catches
               THEN [sidecar EXCEPT ![s].models_loaded = TRUE, ![s].started = TRUE,
                                    ![s].phase = "serving"]
               ELSE [sidecar EXCEPT ![s].phase = "failed"]
  /\ UNCHANGED <<ClassifierVars, ml>>

\* lifespan constructs the next classifier: joblib.load returns, or raises on
\* a missing or corrupt artifact.  Inside try/except the exception sets
\* models_loaded False and startup goes on; without it the exception leaves
\* lifespan and the application startup fails.
LifespanLoad(s) ==
  /\ sidecar[s].phase = "loading"
  /\ sidecar[s].next <= Len(ServerDef[s].artifacts)
  /\ \E ok \in BOOLEAN :
        sidecar' =
          IF ok
          THEN [sidecar EXCEPT ![s].classifiers = @ \cup {ServerDef[s].artifacts[sidecar[s].next]},
                               ![s].next = @ + 1]
          ELSE IF ServerDef[s].catches
               THEN [sidecar EXCEPT ![s].models_loaded = FALSE, ![s].started = TRUE,
                                    ![s].phase = "serving"]
               ELSE [sidecar EXCEPT ![s].phase = "failed"]
  /\ UNCHANGED <<ClassifierVars, ml>>

\* Every classifier is constructed: models_loaded = True where the server
\* keeps the flag, startup_time is set, lifespan yields.
LifespanYield(s) ==
  /\ sidecar[s].phase = "loading"
  /\ sidecar[s].next > Len(ServerDef[s].artifacts)
  /\ sidecar' = [sidecar EXCEPT ![s].models_loaded = ServerDef[s].catches,
                                ![s].started = TRUE, ![s].phase = "serving"]
  /\ UNCHANGED <<ClassifierVars, ml>>

\* POST /classify: the neutral response when the server tests models_loaded
\* and it is False; else the classifiers are called, which raises when one of
\* them is still None.
classify(s) ==
  /\ sidecar[s].phase = "serving"
  /\ sidecar' = [sidecar EXCEPT ![s].response =
                    IF ServerDef[s].checks_flag /\ ~sidecar[s].models_loaded THEN "neutral"
                    ELSE IF \A i \in 1..Len(ServerDef[s].artifacts) :
                               ServerDef[s].artifacts[i] \in sidecar[s].classifiers
                         THEN "classified" ELSE "raised",
                                  ![s].payload =
                    IF ServerDef[s].checks_flag /\ ~sidecar[s].models_loaded
                    THEN NeutralResponse[s] ELSE <<>>]
  /\ UNCHANGED <<ClassifierVars, ml>>

\* GET /health: healthy, or 503 where the server reports models_loaded False.
health(s) ==
  /\ sidecar[s].phase = "serving"
  /\ sidecar' = [sidecar EXCEPT ![s].health =
                    IF ServerDef[s].checks_flag /\ ~sidecar[s].models_loaded
                    THEN "503" ELSE "healthy"]
  /\ UNCHANGED <<ClassifierVars, ml>>

NextSidecar ==
  \E s \in Servers :
     \/ LifespanEnter(s)
     \/ LifespanLoad(s)
     \/ LifespanYield(s)
     \/ classify(s)
     \/ health(s)

SpecSidecar == Init /\ [][NextSidecar]_vars

\* ------------------------------------------------------------ what is returned
\* The Classification caller c got back, its list read through the heap.
Returned(c) ==
  [relevance |-> result[c].relevance, crime_types |-> Deref(heap, result[c].crime_types),
   confidence |-> result[c].confidence, location |-> result[c].location]

Done(c) == pc[c] = "done"

\* The title and body of caller c's call after `or ""`.
TitleOf(c) == OrEmpty(arg[c].title)
BodyOf(c) == OrEmpty(arg[c].body)

\* The cascade branch caller c ran ("" before the cascade or when excluded).
Fired(c) == IF Len(trace[c]) >= 4 THEN trace[c][4] ELSE ""

\* classify_article as a function of its arguments and the registry: what one
\* call alone returns.
classify_article(reg, t, b) ==
  LET title == OrEmpty(t)
      body == OrEmpty(b)
      m == MatchCategories(reg, title)
      branch == CascadeBranch(reg, title, m.crime_types)
      fresh == [relevance |-> "not_crime", crime_types |-> <<>>, confidence |-> 0,
                location |-> "not_specified"]
      tier == LocationTier(reg, Combined(title, body), is_international(reg, title), "not_specified")
  IN  IF Excluded(reg, title) THEN fresh
      ELSE CASE branch = "peripheral_specific" ->
                  [fresh EXCEPT !.relevance = "peripheral_crime",
                                !.crime_types = PeripheralCrimeTypes(title), !.confidence = 60]
             [] branch = "policy_override" ->
                  [fresh EXCEPT !.relevance = "peripheral_crime",
                                !.crime_types = m.crime_types, !.confidence = 50]
             [] branch = "impaired_collision" ->
                  [relevance |-> "core_street_crime", crime_types |-> Append(m.crime_types, "violent_crime"),
                   confidence |-> Max(m.max_confidence, 80), location |-> tier]
             [] branch = "impaired" ->
                  [relevance |-> "peripheral_crime", crime_types |-> <<"criminal_justice">>,
                   confidence |-> 70, location |-> tier]
             [] branch = "international" ->
                  [relevance |-> "peripheral_crime", crime_types |-> m.crime_types,
                   confidence |-> Min(m.max_confidence, 65), location |-> tier]
             [] branch = "residual_policy" ->
                  [relevance |-> "peripheral_crime", crime_types |-> m.crime_types,
                   confidence |-> 50, location |-> tier]
             [] branch = "default" ->
                  [relevance |-> "core_street_crime", crime_types |-> m.crime_types,
                   confidence |-> m.max_confidence, location |-> tier]
             [] OTHER ->
                  [relevance |-> "not_crime", crime_types |-> m.crime_types,
                   confidence |-> m.max_confidence, location |-> tier]

\* The labels the classifier's output is consumed with
\* (streetcode-ml/train_and_export.py, crime_types).
KnownCategories ==
  { "violent_crime", "property_crime", "drug_crime", "gang_violence",
    "organized_crime", "criminal_justice", "other_crime" }

Relevances == { "core_street_crime", "peripheral_crime", "not_crime" }
Locations == { "local_canada", "national_canada", "international", "not_specified" }

\* ==================================================================== claims
\* The three fields every claim below reads together.
Verdict(r) == <<r.relevance, r.crime_types, r.confidence>>

\* C1: a finished call whose title matches a structural exclusion pattern
\* (EXCLUDE_TITLE_PATTERNS) or one of the hand-listed false-positive patterns
\* returned exactly (not_crime, [], 0.0), for every body and whatever else the
\* title matches.
C1_ExclusionShortCircuit ==
  \A c \in Callers :
     ( /\ Done(c)
       /\ \/ StructuralExclusion(registry, TitleOf(c))
          \/ FalsePositiveExclusion(TitleOf(c)) )
     => Verdict(Returned(c)) = <<"not_crime", <<>>, 0>>

\* C1 happens: a finished call with a non-empty body whose title matches a
\* false-positive pattern and also a strong keyword and a category rule.
C1_Witness ==
  /\ Done(1)
  /\ FalsePositiveExclusion(TitleOf(1))
  /\ Search(STRONG_KEYWORDS, WordsOf(TitleOf(1)))
  /\ MatchCategories(registry, TitleOf(1)).crime_types # <<>>
  /\ Truthy(arg[1].body)

\* C2: a finished call that returned not_crime returned no crime types and
\* confidence 0.0, after an exclusion and after a cascade in which no branch
\* fired.
C2_NotCrimeIsBare ==
  \A c \in Callers :
     (Done(c) /\ Returned(c).relevance = "not_crime")
     => (Returned(c).crime_types = <<>> /\ Returned(c).confidence = 0)

\* C2 happens: the cascade fell through with no branch fired although a
\* criminal-justice rule matched the title.
C2_Witness ==
  /\ Done(1)
  /\ Fired(1) = "none"
  /\ match_patterns(WordsOf(TitleOf(1)), Table(registry, "CRIMINAL_JUSTICE_PATTERNS"))[1]
  /\ Returned(1).relevance = "not_crime"

\* C3: the crime_types of a finished call name no category twice.
C3_NoDuplicateCategories ==
  \A c \in Callers :
     Done(c) =>
       \A i, j \in 1..Len(Returned(c).crime_types) :
          Returned(c).crime_types[i] = Returned(c).crime_types[j] => i = j

\* C3's case: the impaired-driving branch added violent_crime to a list in
\* which the category matcher had already put it.
C3_Witness ==
  /\ Done(1)
  /\ Fired(1) = "impaired_collision"
  /\ \E i \in 1..Len(MatchCategories(registry, TitleOf(1)).crime_types) :
        MatchCategories(registry, TitleOf(1)).crime_types[i] = "violent_crime"

JusticeAlone(c) == Returned(c).crime_types = <<"criminal_justice">>

Standalone(c) == Search(STANDALONE_INCIDENT, WordsOf(TitleOf(c)))

\* C4 as stated: a finished call returned exactly [criminal_justice] only if
\* its title matches the standalone-incident pattern (standoff or escape).
C4_JusticeAloneOnlyStandalone ==
  \A c \in Callers : (Done(c) /\ JusticeAlone(c)) => Standalone(c)

\* C4, amended: a finished call returned exactly [criminal_justice] only if
\* its title matches the standalone-incident pattern, or the peripheral-specific
\* override fired on a title with neither a theft nor a violence cue, or the
\* impaired-driving branch fired on a title without a collision cue.
C4_JusticeAloneOnlyBySource ==
  \A c \in Callers :
     (Done(c) /\ JusticeAlone(c)) =>
        \/ Standalone(c)
        \/ /\ Fired(c) = "peripheral_specific"
           /\ ~Search(THEFT_CUE, WordsOf(TitleOf(c)))
           /\ ~Search(VIOLENCE_CUE, WordsOf(TitleOf(c)))
        \/ /\ Fired(c) = "impaired"
           /\ ~Search(COLLISION_CUE, WordsOf(TitleOf(c)))

\* C4 happens: the category matcher alone produced [criminal_justice], on a
\* standoff or escape title, and no override replaced it.
C4_Witness ==
  /\ Done(1)
  /\ JusticeAlone(1)
  /\ Standalone(1)
  /\ Fired(1) = "default"

\* C5: a finished call that the exclusion stage did not end has the location
\* tier of its title + body[:500] window, whichever cascade branch fired.
C5_LocationOfWindow ==
  \A c \in Callers :
     (Done(c) /\ ~Excluded(registry, TitleOf(c))) =>
        Returned(c).location =
          LocationTier(registry, Combined(TitleOf(c), BodyOf(c)),
                       is_international(registry, TitleOf(c)), "not_specified")

\* C5's case: an override branch other than the default one fired on a
\* window with a gazetteer match.
C5_Witness ==
  /\ Done(1)
  /\ Fired(1) \in {"peripheral_specific", "policy_override"}
  /\ match_any(Combined(TitleOf(1), BodyOf(1)), Table(registry, "CANADIAN_LOCATIONS"))

\* The tables whose rules carry a weight, and the weights a registry holds.
WeightedTables ==
  { CoreGroups[k][1] : k \in 1..Len(CoreGroups) } \cup {"CRIMINAL_JUSTICE_PATTERNS"}

RegistryWeights(reg) ==
  UNION { { Table(reg, g)[i][2] : i \in 1..Len(reg[g]) } : g \in WeightedTables }

\* The confidences the override cascade assigns.
OverrideConstants == {50, 60, 65, 70, 80}

\* C6: the confidence of a finished call lies in [0, 1] (0..100 hundredths)
\* and is 0.0, a weight authored in the pattern registry, or one of the
\* constants the cascade assigns (0.50, 0.60, 0.65, 0.70, 0.80).
C6_ConfidenceIsAuthored ==
  \A c \in Callers :
     Done(c) =>
        /\ Returned(c).confidence \in 0..100
        /\ Returned(c).confidence \in {0} \cup RegistryWeights(registry) \cup OverrideConstants

\* C6 happens: a title matched rules of two categories with different
\* weights, and the call returned the larger weight.
C6_Witness ==
  /\ Done(1)
  /\ Fired(1) = "default"
  /\ \E g, h \in WeightedTables :
        LET mg == match_patterns(WordsOf(TitleOf(1)), Table(registry, g))
            mh == match_patterns(WordsOf(TitleOf(1)), Table(registry, h))
        IN  mg[1] /\ mh[1] /\ mg[2] < mh[2] /\ Returned(1).confidence = mh[2]

\* C7: with any number of callers interleaved over the shared registry, every
\* finished call returned what classifying its own title and body alone
\* returns, its crime_types list is the list of no other call, and the
\* registry is the one the module loaded.
C7_NoHiddenState ==
  /\ registry = PatternRegistry
  /\ \A c \in Callers :
        Done(c) => Returned(c) = classify_article(PatternRegistry, arg[c].title, arg[c].body)
  /\ \A c, d \in Callers :
        (c # d /\ Done(c)) =>
           result[c].crime_types \notin {result[d].crime_types, frame[d].crime_types}

\* C7 happens: two callers passed the same title and body; one has finished
\* through the branch that appends to its list in place while the other is
\* still between the matcher and the cascade.
C7_Witness ==
  /\ Done(1)
  /\ pc[2] = "cascade"
  /\ arg[1] = arg[2]
  /\ Fired(1) = "impaired_collision"

\* b[:500] of a body argument.
WindowOf(b) == Slice(OrEmpty(b), BodyWindow)

\* C8: for the title of a finished call, every other body gives the same
\* relevance, crime_types and confidence, and every other body with the same
\* first 500 characters gives the same location.
C8_BodyNoninterference ==
  \A c \in Callers :
     Done(c) =>
        \A b \in Bodies :
           LET other == classify_article(registry, arg[c].title, b)
           IN  /\ Verdict(other) = Verdict(Returned(c))
               /\ WindowOf(b) = WindowOf(arg[c].body) => other.location = Returned(c).location

\* C8 happens: a finished call on a crime title whose body is longer than
\* the window and names a place across the cut; another body has the same
\* window and differs after it, and a third differs within the window and
\* moves the location.
C8_Witness ==
  /\ Done(1)
  /\ Returned(1).relevance = "core_street_crime"
  /\ WindowOf(arg[1].body) # OrEmpty(arg[1].body)
  /\ \E b \in Bodies : /\ OrEmpty(b) # OrEmpty(arg[1].body)
                       /\ WindowOf(b) = WindowOf(arg[1].body)
  /\ \E b \in Bodies : /\ WindowOf(b) # WindowOf(arg[1].body)
                       /\ classify_article(registry, arg[1].title, b).location # Returned(1).location

\* A title that is empty or only spaces.
Blank(s) == s.pad = 0 /\ \A i \in 1..Len(s.words) : s.words[i] = ""

\* C9 as stated: a finished call with a blank title returned not_crime, [],
\* 0.0 and location not_specified, whatever the body.
C9_BlankTitleUnspecified ==
  \A c \in Callers :
     (Done(c) /\ Blank(TitleOf(c))) =>
        Returned(c) = [relevance |-> "not_crime", crime_types |-> <<>>, confidence |-> 0,
                       location |-> "not_specified"]

\* C9, amended: a finished call with a blank title returned not_crime, [] and
\* 0.0; its location is local_canada when the first 500 characters of the body
\* name a gazetteer place, else national_canada when they hold a national
\* keyword, else not_specified, and never international.
C9_BlankTitleLocatedByBody ==
  \A c \in Callers :
     (Done(c) /\ Blank(TitleOf(c))) =>
        /\ Verdict(Returned(c)) = <<"not_crime", <<>>, 0>>
        /\ Returned(c).location =
             IF match_any(WordsOf(WindowOf(arg[c].body)), Table(registry, "CANADIAN_LOCATIONS"))
             THEN "local_canada"
             ELSE IF match_any(WordsOf(WindowOf(arg[c].body)), NATIONAL_KEYWORDS)
                  THEN "national_canada" ELSE "not_specified"

\* C9 happens: a finished call with a title of spaces and a body that names
\* a country of the international indicators.
C9_Witness ==
  /\ Done(1)
  /\ Blank(TitleOf(1))
  /\ TitleOf(1).words # <<>>
  /\ match_any(WordsOf(WindowOf(arg[1].body)), Table(registry, "INTERNATIONAL_INDICATORS"))

\* The positions of a call that has not raised.
Stages == {"idle", "exclusion", "matcher", "cascade", "location", "done"}

\* C10: no call raises: every call is idle, at one of the four stages or
\* done, and is through after at most five steps; a finished call returned a
\* relevance of the three labels, known category identifiers, a confidence
\* and a location of the four tiers; and an absent body gives what the
\* empty string gives.
C10_TotalAndPopulated ==
  \A c \in Callers :
     /\ pc[c] \in Stages
     /\ Len(trace[c]) <= 5
     /\ Done(c) =>
          /\ Returned(c).relevance \in Relevances
          /\ \A i \in 1..Len(Returned(c).crime_types) : Returned(c).crime_types[i] \in KnownCategories
          /\ Returned(c).confidence \in 0..100
          /\ Returned(c).location \in Locations
          /\ arg[c].body = None => Returned(c) = classify_article(registry, arg[c].title, EmptyStr)

\* C10 happens: a finished call that was passed no body, and no title either.
C10_Witness ==
  /\ Done(1)
  /\ arg[1].body = None
  /\ arg[1].title = None

\* The branches of the override cascade in their order, and the guard of each
\* on the title of caller c and the categories the matcher produced.
BranchOrder ==
  <<"peripheral_specific", "policy_override", "impaired", "international",
    "residual_policy", "default">>

MatcherTypes(c) == MatchCategories(registry, TitleOf(c)).crime_types

Guard(c, b) ==
  CASE b = "peripheral_specific" -> is_peripheral_specific(registry, TitleOf(c))
    [] b = "policy_override" ->
         is_policy(registry, TitleOf(c)) /\ ~Search(HARD_INCIDENT, WordsOf(TitleOf(c)))
    [] b = "impaired" -> is_impaired(registry, TitleOf(c))
    [] b = "international" -> is_international(registry, TitleOf(c)) /\ MatcherTypes(c) # <<>>
    [] b = "residual_policy" -> is_policy(registry, TitleOf(c))
    [] b = "default" -> MatcherTypes(c) # <<>>

\* The branch that ran, the two arms of the impaired-driving branch taken as one.
FiredBranch(c) == IF Fired(c) = "impaired_collision" THEN "impaired" ELSE Fired(c)

\* What a call past the cascade is going to return: its relevance, and the
\* list and confidence it holds in its result or still in its locals.
Decided(c) ==
  IF pc[c] = "done" THEN Verdict(Returned(c))
  ELSE <<result[c].relevance, Deref(heap, frame[c].crime_types), frame[c].max_confidence>>

\* C11: a call that got past the exclusion stage ran exactly one step of the
\* cascade; the branch it took is the first of the fixed order whose guard
\* holds (none when no guard holds); and no step after the cascade changes
\* the relevance, the categories or the confidence the branch left.
C11_FirstApplicableBranchOnly ==
  /\ [](\A c \in Callers :
          Len(trace[c]) >= 4 =>
             /\ Cardinality({ i \in 1..Len(trace[c]) :
                                trace[c][i] \in { BranchOrder[k] : k \in 1..Len(BranchOrder) }
                                                \cup {"impaired_collision", "none"} }) = 1
             /\ \A k \in 1..Len(BranchOrder) :
                   (Guard(c, BranchOrder[k]) /\ \A j \in 1..(k - 1) : ~Guard(c, BranchOrder[j]))
                   => FiredBranch(c) = BranchOrder[k]
             /\ (\A k \in 1..Len(BranchOrder) : ~Guard(c, BranchOrder[k])) => FiredBranch(c) = "none")
  /\ [][\A c \in Callers : Len(trace[c]) >= 4 => Decided(c)' = Decided(c)]_vars

\* C11 happens: a finished call whose title satisfies the guards of three
\* branches, of which the first in the order ran.
C11_Witness ==
  /\ Done(1)
  /\ Guard(1, "policy_override")
  /\ Guard(1, "impaired")
  /\ Guard(1, "residual_policy")
  /\ FiredBranch(1) = "policy_override"

\* A server whose startup met an artifact that did not load.
\* ------------------------------------------------------- sidecar normalizers
\* A sidecar text is Str(pad, words): a run of pad spaces, then the words
\* separated by single spaces.  No word holds more than one @.
MAX_PREPROCESS_LENGTH == 1000000

\* The three preprocess_text functions; only coforge-ml's caps its input.
Normalizers == {"coforge-ml", "crime-ml", "streetcode-ml"}

\* w.lower(): G and M are the capitals of the texts.
RECURSIVE LowerStr(_)
LowerStr(w) ==
  LET LowerChar(ch) == CASE ch = "G" -> "g" [] ch = "M" -> "m" [] OTHER -> ch
  IN  IF w = "" THEN "" ELSE LowerChar(SubSeq(w, 1, 1)) \o LowerStr(SubSeq(w, 2, Len(w)))

\* https?://[^\s]+ (and https?://\S+) removed from a word: the scheme needs a
\* character after it, and the match runs to the end of the word.
UrlFree(w) ==
  LET starts == { i \in 1..Len(w) :
                    \/ Len(w) > i + 6 /\ SubSeq(w, i, i + 6) = "http://"
                    \/ Len(w) > i + 7 /\ SubSeq(w, i, i + 7) = "https://" }
  IN  IF starts = {} THEN w
      ELSE SubSeq(w, 1, (CHOOSE i \in starts : \A j \in starts : i <= j) - 1)

\* [^\s@]+@[^\s@]+ (and \S+@\S+) removed from a word with one @: the whole
\* word when the @ has a character on each side.
EmailFree(w) ==
  IF \E i \in 2..(Len(w) - 1) : SubSeq(w, i, i) = "@" THEN "" ELSE w

\* Every character that is not a word character (c.isalnum() or c == "_", \w
\* of a lower-cased text) becomes a space, runs of spaces collapse and the
\* ends are stripped: the maximal runs of word characters of w, in order.
RECURSIVE WordRuns(_, _)
WordRuns(w, run) ==
  LET WordChars ==
        { "a", "b", "c", "d", "e", "f", "g", "h", "i", "j", "k", "l", "m", "n", "o", "p", "q", "r",
          "s", "t", "u", "v", "w", "x", "y", "z", "0", "1", "2", "3", "4", "5", "6", "7", "8", "9", "_" }
  IN  IF w = "" THEN (IF run = "" THEN <<>> ELSE <<run>>)
      ELSE IF SubSeq(w, 1, 1) \in WordChars
           THEN WordRuns(SubSeq(w, 2, Len(w)), run \o SubSeq(w, 1, 1))
           ELSE (IF run = "" THEN <<>> ELSE <<run>>) \o WordRuns(SubSeq(w, 2, Len(w)), "")

\* The words of (w1 + " " + w2 + ...)[:r], a cut word being its prefix.
RECURSIVE TakeChars(_, _)
TakeChars(ws, r) ==
  IF ws = <<>> \/ r <= 0 THEN <<>>
  ELSE LET w == Head(ws)
       IN  IF Len(w) > r THEN <<SubSeq(w, 1, r)>>
           ELSE <<w>> \o TakeChars(Tail(ws), r - Len(w) - 1)

\* text[:n]
Prefix(text, n) ==
  IF text.pad >= n THEN Str(n, <<>>) ELSE Str(text.pad, TakeChars(text.words, n - text.pad))

\* The cleaning steps on the words of a text, joined.
RECURSIVE CleanWords(_)
CleanWords(ws) ==
  IF ws = <<>> THEN <<>>
  ELSE WordRuns(EmailFree(UrlFree(LowerStr(Head(ws)))), "") \o CleanWords(Tail(ws))

\* preprocess_text of normalizer v: the words of the cleaned text, <<>> for "".
preprocess_text(v, text) ==
  IF ~Truthy(text) THEN <<>>
  ELSE CleanWords((IF v = "coforge-ml" THEN Prefix(text, MAX_PREPROCESS_LENGTH) ELSE text).words)

\* The texts the sidecars are given.
MlTexts ==
  { None, EmptyStr, Str(3, <<>>), Str(0, <<"!!">>), Str(0, <<"https://x.io">>), Str(0, <<"a@b.io">>),
    Str(0, <<"Gold", "Mine">>), Str(0, <<"gold-mine", "see:http://x.io/a">>),
    Str(MAX_PREPROCESS_LENGTH - 2, <<"gold">>), Str(MAX_PREPROCESS_LENGTH - 7, <<"http://x", "io">>),
    Str(MAX_PREPROCESS_LENGTH, <<"gold">>), Str(MAX_PREPROCESS_LENGTH + 5, <<"gold">>) }

ServingVars == <<registry, heap, pc, arg, frame, result, trace, sidecar>>

\* The functions keep nothing between calls: each behaviour is one call.
\* preprocess_text(text) of one of the three normalizers.
Preprocess ==
  \E v \in Normalizers, t \in MlTexts :
     /\ ml = NoCall
     /\ ml' = [NoCall EXCEPT !.op = "preprocess_text", !.variant = v, !.text = t,
                             !.cleaned = preprocess_text(v, t)]
     /\ UNCHANGED ServingVars

\* ------------------------------------------------ sidecar statistical classifiers
\* Classes kept of each classifier's class list.
MaxClasses == 2

\* The classifiers that vectorize a cleaned text and ask a trained model:
\* single-label ones answer a label and a confidence, multi-label ones a label
\* list and a scores map.  `default' is the label of the empty-text answer,
\* `sigmoid' tells whether classify tries decision_function, `normalizers' the
\* preprocess_text the class may be importing (mining-ml's is not in the
\* sources: either kind).
ClassifierDef ==
  [ k \in { "coforge-ml/relevance", "coforge-ml/audience", "coforge-ml/topic", "coforge-ml/industry",
            "crime-ml/relevance", "crime-ml/location", "crime-ml/crime_type",
            "mining-ml/relevance", "mining-ml/mining_stage", "mining-ml/commodity" } |->
      CASE k = "coforge-ml/relevance" ->
             [multi |-> FALSE, sigmoid |-> FALSE, default |-> "not_relevant", normalizers |-> {"coforge-ml"},
              classes |-> <<"core_coforge", "peripheral", "not_relevant">>]
        [] k = "coforge-ml/audience" ->
             [multi |-> FALSE, sigmoid |-> FALSE, default |-> "hybrid", normalizers |-> {"coforge-ml"},
              classes |-> <<"developer", "entrepreneur", "hybrid">>]
        [] k = "coforge-ml/topic" ->
             [multi |-> TRUE, sigmoid |-> TRUE, default |-> "", normalizers |-> {"coforge-ml"},
              classes |-> <<"framework_release", "open_source", "devtools", "api_sdk">>]
        [] k = "coforge-ml/industry" ->
             [multi |-> TRUE, sigmoid |-> TRUE, default |-> "", normalizers |-> {"coforge-ml"},
              classes |-> <<"ai_ml", "fintech", "saas", "devtools">>]
        [] k = "crime-ml/relevance" ->
             [multi |-> FALSE, sigmoid |-> FALSE, default |-> "not_crime", normalizers |-> {"crime-ml"},
              classes |-> <<"core_street_crime", "peripheral_crime", "not_crime">>]
        [] k = "crime-ml/location" ->
             [multi |-> FALSE, sigmoid |-> FALSE, default |-> "not_specified", normalizers |-> {"crime-ml"},
              classes |-> <<"local_canada", "national_canada", "international", "not_specified">>]
        [] k = "crime-ml/crime_type" ->
             [multi |-> TRUE, sigmoid |-> FALSE, default |-> "", normalizers |-> {"crime-ml"},
              classes |-> <<"violent_crime", "property_crime", "drug_crime", "organized_crime">>]
        [] k = "mining-ml/relevance" ->
             [multi |-> FALSE, sigmoid |-> FALSE, default |-> "not_mining",
              normalizers |-> {"coforge-ml", "crime-ml"},
              classes |-> <<"core_mining", "peripheral_mining", "not_mining">>]
        [] k = "mining-ml/mining_stage" ->
             [multi |-> FALSE, sigmoid |-> FALSE, default |-> "unspecified",
              normalizers |-> {"coforge-ml", "crime-ml"},
              classes |-> <<"exploration", "development", "production", "unspecified">>]
        [] OTHER ->
             [multi |-> TRUE, sigmoid |-> FALSE, default |-> "",
              normalizers |-> {"coforge-ml", "crime-ml"},
              classes |-> <<"gold", "copper", "lithium", "nickel">>] ]

MultiLabel == { k \in DOMAIN ClassifierDef : ClassifierDef[k].multi }
SingleLabel == { k \in DOMAIN ClassifierDef : ~ClassifierDef[k].multi }

\* self.classes, cut to the classes kept.
ClassesOf(k) == SubSeq(ClassifierDef[k].classes, 1, MaxClasses)

\* Scores are in ten-thousandths, decision values in hundredths.
Threshold == 3000

\* A trained model is told by the richest scoring method it has: predict_proba
\* ("proba"), decision_function without predict_proba ("decision"), or
\* predict alone ("binary").  The method classify ends up using: predict_proba; on AttributeError
\* decision_function where the class tries it; on AttributeError predict.
ScoringPath(k, method) ==
  IF method = "proba" THEN "predict_proba"
  ELSE IF method = "decision" /\ ClassifierDef[k].sigmoid THEN "decision_function"
  ELSE "predict"

\* What a model may answer per class on each path.
RawValues(path) ==
  CASE path = "predict_proba" -> {0, 2999, 3000, 10000}
    [] path = "decision_function" -> {-100000, -85, -84, 300}
    [] OTHER -> {0, 1}

\* 1.0 / (1.0 + np.exp(-x)), to four places; exp overflows to inf at -1000.
sigmoid(x) ==
  CASE x = -100000 -> 0
    [] x = -85 -> 2994
    [] x = -84 -> 3015
    [] x = 300 -> 9526

\* prob > THRESHOLD
SelectedAbove(score) == score > Threshold

\* prob >= THRESHOLD
Selected(score) == score >= Threshold

\* [cls for i, cls in enumerate(classes) if keep[i]]
RECURSIVE Kept(_, _)
Kept(classes, keep) ==
  IF classes = <<>> THEN <<>>
  ELSE (IF Head(keep) THEN <<Head(classes)>> ELSE <<>>) \o Kept(Tail(classes), Tail(keep))

\* The answer of a multi-label classify on a non-empty cleaned text.
MultiResult(k, path, raw) ==
  LET classes == ClassesOf(k)
      n == Len(classes)
  IN  IF path = "predict"
      THEN LET labels == Kept(classes, [i \in 1..n |-> raw[i] # 0])
           IN  [labels |-> labels,
                scores |-> [c \in { classes[i] : i \in 1..n } |->
                              IF \E j \in 1..Len(labels) : labels[j] = c THEN 10000 ELSE 0]]
      ELSE LET score == [i \in 1..n |-> IF path = "predict_proba" THEN raw[i] ELSE sigmoid(raw[i])]
           IN  [labels |-> Kept(classes, [i \in 1..n |-> Selected(score[i])]),
                scores |-> [c \in { classes[i] : i \in 1..n } |->
                              score[CHOOSE i \in 1..n : classes[i] = c]]]

\* The single-label answer on a text that cleans to "", with the confidence
\* of the servers' neutral response.
DefaultResultZero(k) == [label |-> ClassifierDef[k].default, confidence |-> 0]

DefaultResult(k) == [label |-> ClassifierDef[k].default, confidence |-> 5000]

\* The class and the probability at np.argmax(probabilities), the first
\* index of the largest value.
SingleResult(k, raw) ==
  LET argmax == CHOOSE i \in 1..Len(raw) :
                   /\ \A j \in 1..Len(raw) : raw[i] >= raw[j]
                   /\ \A j \in 1..(i - 1) : raw[j] < raw[i]
  IN  [label |-> ClassesOf(k)[argmax], confidence |-> raw[argmax]]

\* classify(text) of a multi-label classifier on some model.
ClassifyMulti ==
  \E k \in MultiLabel, t \in MlTexts, method \in {"proba", "decision", "binary"} :
     \E v \in ClassifierDef[k].normalizers :
        \E raw \in [1..MaxClasses -> RawValues(ScoringPath(k, method))] :
           LET cleaned == preprocess_text(v, t)
           IN  /\ ml = NoCall
               /\ ml' = [op |-> "classify", who |-> k, variant |-> v, text |-> t, cleaned |-> cleaned,
                         invoked |-> cleaned # <<>>, method |-> method, raw |-> raw,
                         result |-> IF cleaned = <<>> THEN [labels |-> <<>>, scores |-> <<>>]
                                    ELSE MultiResult(k, ScoringPath(k, method), raw)]
               /\ UNCHANGED ServingVars

\* classify(text) of a single-label classifier on some model.
ClassifySingle ==
  \E k \in SingleLabel, t \in MlTexts :
     \E v \in ClassifierDef[k].normalizers :
        \E raw \in [1..MaxClasses -> {0, 5000, 10000}] :
           LET cleaned == preprocess_text(v, t)
           IN  /\ ml = NoCall
               /\ ml' = [op |-> "classify", who |-> k, variant |-> v, text |-> t, cleaned |-> cleaned,
                         invoked |-> cleaned # <<>>, method |-> "proba", raw |-> raw,
                         result |-> IF cleaned = <<>> THEN DefaultResult(k) ELSE SingleResult(k, raw)]
               /\ UNCHANGED ServingVars

NextMl ==
  \/ Preprocess
  \/ ClassifyMulti
  \/ ClassifySingle

SpecMl == Init /\ [][NextMl]_vars

LoadFailed(s) ==
  /\ sidecar[s].phase \in {"serving", "failed"}
  /\ \E i \in 1..Len(ServerDef[s].artifacts) : ServerDef[s].artifacts[i] \notin sidecar[s].classifiers

\* C12: in each of crime-ml, mining-ml and coforge-ml, an artifact that does
\* not load does not stop the startup: the server is serving with its
\* load-success flag False, and no /classify request raises.
C12_LoadFailureDegrades ==
  \A s \in Servers :
     /\ LoadFailed(s) =>
          /\ sidecar[s].phase = "serving"
          /\ ServerDef[s].checks_flag
          /\ ~sidecar[s].models_loaded
     /\ sidecar[s].response # "raised"

\* C12's case: a server is serving after a failed load and has answered a
\* /classify request with the neutral response.
C12_Witness ==
  \E s \in Servers :
     /\ LoadFailed(s)
     /\ sidecar[s].phase = "serving"
     /\ sidecar[s].response = "neutral"

\* The title of caller c matches an entry of NON_CRIME_TITLE_PATTERNS; it
\* holds one of the strong keywords.
NonCrimeTitle(c) == match_any(WordsOf(TitleOf(c)), Table(registry, "NON_CRIME_TITLE_PATTERNS"))
StrongTitle(c) == Search(STRONG_KEYWORDS, WordsOf(TitleOf(c)))

\* The call of caller c returned from the exclusion stage.
ReturnedAtExclusion(c) == Done(c) /\ trace[c] = <<"call", "exclusion">>

\* C13: a finished call whose title matches NON_CRIME_TITLE_PATTERNS
\* returned from the exclusion stage with not_crime, [], 0.0 when the title
\* has no strong keyword; when it has one the call went on, to return from
\* the exclusion stage only if a structural or false-positive pattern
\* matches, and to run the category matcher otherwise.
C13_NonCrimeUnlessStrongKeyword ==
  \A c \in Callers :
     (Done(c) /\ NonCrimeTitle(c)) =>
        /\ ~StrongTitle(c) =>
             /\ ReturnedAtExclusion(c)
             /\ Verdict(Returned(c)) = <<"not_crime", <<>>, 0>>
        /\ StrongTitle(c) =>
             /\ ReturnedAtExclusion(c) <=>
                  (StructuralExclusion(registry, TitleOf(c)) \/ FalsePositiveExclusion(TitleOf(c)))
             /\ ~ReturnedAtExclusion(c) => trace[c][3] = "matcher"

\* C13 happens: a finished call whose title matches a non-crime pattern and
\* holds a strong keyword was classified as core street crime.
C13_Witness ==
  /\ Done(1)
  /\ NonCrimeTitle(1)
  /\ StrongTitle(1)
  /\ Returned(1).relevance = "core_street_crime"

\* C14: a finished call that the exclusion stage let through and whose title
\* matches PERIPHERAL_SPECIFIC_PATTERNS returned peripheral_crime with
\* confidence 0.60 and, in place of the matcher's categories,
\* [property_crime, criminal_justice] on a theft cue, else
\* [violent_crime, criminal_justice] on a violence cue, else
\* [criminal_justice], whatever else the title matches.
C14_PeripheralSpecificOverride ==
  \A c \in Callers :
     (Done(c) /\ ~ReturnedAtExclusion(c) /\ Guard(c, "peripheral_specific")) =>
        /\ Returned(c).relevance = "peripheral_crime"
        /\ Returned(c).confidence = 60
        /\ Returned(c).crime_types =
             IF Search(THEFT_CUE, WordsOf(TitleOf(c)))
             THEN <<"property_crime", "criminal_justice">>
             ELSE IF Search(VIOLENCE_CUE, WordsOf(TitleOf(c)))
                  THEN <<"violent_crime", "criminal_justice">>
                  ELSE <<"criminal_justice">>

\* C14 happens: the override ran on a title for which the matcher had found
\* categories, and the call returned other categories than the matcher's.
C14_Witness ==
  /\ Done(1)
  /\ Fired(1) = "peripheral_specific"
  /\ MatcherTypes(1) # <<>>
  /\ MatcherTypes(1) # Returned(1).crime_types

\* C15: a finished call that the exclusion stage let through, whose title
\* matches POLICY_PATTERNS, no peripheral-specific pattern and no
\* hard-incident keyword, returned peripheral_crime with confidence 0.50 and
\* exactly the matcher's list, empty or not, whatever impaired-driving or
\* international indicators the title matches.
C15_PolicyOverride ==
  \A c \in Callers :
     ( /\ Done(c)
       /\ ~ReturnedAtExclusion(c)
       /\ Guard(c, "policy_override")
       /\ ~Guard(c, "peripheral_specific") )
     => Verdict(Returned(c)) = <<"peripheral_crime", MatcherTypes(c), 50>>

\* C15 happens: the policy override returned an empty list on a title that
\* also matches an impaired-driving pattern.
C15_Witness ==
  /\ Done(1)
  /\ Fired(1) = "policy_override"
  /\ Guard(1, "impaired")
  /\ Returned(1).crime_types = <<>>

\* The confidence the category matcher left for the title of caller c.
MatcherConfidence(c) == MatchCategories(registry, TitleOf(c)).max_confidence

\* The impaired-driving branch is the first applicable one for caller c.
ImpairedFirst(c) ==
  /\ Guard(c, "impaired")
  /\ ~Guard(c, "peripheral_specific")
  /\ ~Guard(c, "policy_override")

\* C16: a finished call for which the impaired-driving branch was the first
\* applicable one returned, on a collision, injury or fatality cue,
\* core_street_crime, the matcher's list with violent_crime added at its end
\* and the larger of the matcher's confidence and 0.80; without the cue,
\* peripheral_crime, exactly [criminal_justice] and 0.70.
C16_ImpairedDriving ==
  \A c \in Callers :
     (Done(c) /\ ~ReturnedAtExclusion(c) /\ ImpairedFirst(c)) =>
        IF Search(COLLISION_CUE, WordsOf(TitleOf(c)))
        THEN /\ Returned(c).relevance = "core_street_crime"
             /\ Returned(c).crime_types = Append(MatcherTypes(c), "violent_crime")
             /\ \E i \in 1..Len(Returned(c).crime_types) : Returned(c).crime_types[i] = "violent_crime"
             /\ Returned(c).confidence = IF MatcherConfidence(c) >= 80 THEN MatcherConfidence(c) ELSE 80
        ELSE Verdict(Returned(c)) = <<"peripheral_crime", <<"criminal_justice">>, 70>>

\* C16 happens: the branch ran with the cue on a title for which the matcher
\* had left a confidence above 0.80, and the call returned that confidence.
C16_Witness ==
  /\ Done(1)
  /\ Fired(1) = "impaired_collision"
  /\ MatcherConfidence(1) > 80
  /\ Returned(1).confidence = MatcherConfidence(1)

\* C17: the international branch fired only on a title with an international
\* indicator and a non-empty matcher list for which none of the
\* peripheral-specific, policy-override and impaired-driving branches applied;
\* the call then returned peripheral_crime, the matcher's list unchanged and
\* the smaller of the matcher's confidence and 0.65, hence at most 0.65.
C17_InternationalCap ==
  \A c \in Callers :
     (Done(c) /\ Fired(c) = "international") =>
        /\ is_international(registry, TitleOf(c))
        /\ MatcherTypes(c) # <<>>
        /\ ~Guard(c, "peripheral_specific")
        /\ ~Guard(c, "policy_override")
        /\ ~Guard(c, "impaired")
        /\ Returned(c).relevance = "peripheral_crime"
        /\ Returned(c).crime_types = MatcherTypes(c)
        /\ Returned(c).confidence = IF MatcherConfidence(c) <= 65 THEN MatcherConfidence(c) ELSE 65
        /\ Returned(c).confidence <= 65

\* C17 happens: the branch capped a matcher confidence above 0.65.
C17_Witness ==
  /\ Done(1)
  /\ Fired(1) = "international"
  /\ MatcherConfidence(1) > 65
  /\ Returned(1).confidence = 65

\* C18: a finished call on a title that matches POLICY_PATTERNS and holds a
\* hard-incident keyword, and for which none of the peripheral-specific,
\* impaired-driving and international branches applied, returned
\* peripheral_crime, the matcher's list and exactly 0.50.
C18_ResidualPolicy ==
  \A c \in Callers :
     ( /\ Done(c) /\ ~ReturnedAtExclusion(c)
       /\ is_policy(registry, TitleOf(c))
       /\ Search(HARD_INCIDENT, WordsOf(TitleOf(c)))
       /\ ~Guard(c, "peripheral_specific")
       /\ ~Guard(c, "impaired")
       /\ ~Guard(c, "international") )
     => Verdict(Returned(c)) = <<"peripheral_crime", MatcherTypes(c), 50>>

\* C18 happens: the residual policy branch ran on a title for which the
\* matcher had found categories with a confidence above 0.50.
C18_Witness ==
  /\ Done(1)
  /\ Fired(1) = "residual_policy"
  /\ MatcherTypes(1) # <<>>
  /\ MatcherConfidence(1) > 50
  /\ Returned(1).confidence = 50

\* The title of caller c matches none of the peripheral-specific, policy,
\* impaired-driving and international tables.
NoOverrideMatch(c) ==
  /\ ~is_peripheral_specific(registry, TitleOf(c))
  /\ ~is_policy(registry, TitleOf(c))
  /\ ~is_impaired(registry, TitleOf(c))
  /\ ~is_international(registry, TitleOf(c))

\* C19: a finished call that was not excluded, on a title with no
\* peripheral-specific, policy, impaired-driving or international match,
\* returned core_street_crime exactly when the matcher's list was non-empty,
\* not_crime otherwise, and in both cases the matcher's list and confidence.
C19_DefaultBranch ==
  \A c \in Callers :
     (Done(c) /\ ~ReturnedAtExclusion(c) /\ NoOverrideMatch(c)) =>
        /\ Returned(c).relevance = "core_street_crime" <=> MatcherTypes(c) # <<>>
        /\ MatcherTypes(c) = <<>> => Returned(c).relevance = "not_crime"
        /\ Returned(c).crime_types = MatcherTypes(c)
        /\ Returned(c).confidence = MatcherConfidence(c)

\* C19 happens: the default branch made a title of two categories core.
C19_Witness ==
  /\ Done(1)
  /\ Fired(1) = "default"
  /\ NoOverrideMatch(1)
  /\ Len(MatcherTypes(1)) >= 2
  /\ Returned(1).relevance = "core_street_crime"

\* The table whose match places the category cat in the matcher's list.
GroupOf(cat) ==
  CASE cat = "violent_crime"   -> "VIOLENT_CRIME_PATTERNS"
    [] cat = "property_crime"  -> "PROPERTY_CRIME_PATTERNS"
    [] cat = "drug_crime"      -> "DRUG_CRIME_PATTERNS"
    [] cat = "gang_violence"   -> "GANG_PATTERNS"
    [] cat = "organized_crime" -> "ORGANIZED_CRIME_PATTERNS"
    [] OTHER                   -> "CRIMINAL_JUSTICE_PATTERNS"

\* The local confidence of a table on a text: the largest weight among its
\* rules found in the text, 0 when none is.
LocalConfidence(reg, text, name) ==
  LET weights == { Table(reg, name)[i][2] :
                     i \in { i \in 1..Len(reg[name]) : Search(Table(reg, name)[i][1], text) } }
  IN  IF weights = {} THEN 0
      ELSE CHOOSE w \in weights : \A v \in weights : w >= v

\* Caller c has run the category matcher and not yet the cascade.
AfterMatcher(c) == pc[c] = "cascade"

\* The local confidences of the categories in caller c's list.
PlacedConfidences(c) ==
  LET placed == Deref(heap, frame[c].crime_types)
  IN  { LocalConfidence(registry, WordsOf(frame[c].title), GroupOf(placed[i])) :
          i \in 1..Len(placed) }

\* C20: after the category matcher, max_confidence is the largest local
\* confidence of the categories placed in the list, criminal_justice
\* included, and it is 0.0 only when the list is empty.
C20_GlobalConfidenceIsMaxLocal ==
  \A c \in Callers :
     AfterMatcher(c) =>
        /\ frame[c].max_confidence \in PlacedConfidences(c) \cup {0}
        /\ \A w \in PlacedConfidences(c) : frame[c].max_confidence >= w
        /\ frame[c].max_confidence = 0 => Deref(heap, frame[c].crime_types) = <<>>

\* C20 fails: the matcher placed criminal_justice alone, on a title where a
\* rule of its table with a positive weight matches, and left max_confidence
\* at 0.0.
C20_Witness ==
  /\ AfterMatcher(1)
  /\ Deref(heap, frame[1].crime_types) = <<"criminal_justice">>
  /\ LocalConfidence(registry, WordsOf(frame[1].title), "CRIMINAL_JUSTICE_PATTERNS") > 0
  /\ frame[1].max_confidence = 0

\* The list the category matcher left for caller c, and the title it read.
Placed(c) == Deref(heap, frame[c].crime_types)

MatcherText(c) == WordsOf(frame[c].title)

\* A rule of one of the five substantive tables matches the title of caller c.
SubstantiveMatched(c) ==
  \E k \in 1..Len(CoreGroups) : LocalConfidence(registry, MatcherText(c), CoreGroups[k][1]) > 0

JusticeMatched(c) == LocalConfidence(registry, MatcherText(c), "CRIMINAL_JUSTICE_PATTERNS") > 0

JusticePlaced(c) == \E i \in 1..Len(Placed(c)) : Placed(c)[i] = "criminal_justice"

\* C21 as stated: after the category matcher, criminal_justice is in the list
\* only if its table matched and either a substantive category matched or the
\* title matches the standalone-incident pattern; and when it is there with no
\* substantive category, it is the only category of the list.
C21_JusticeSoleWhenStandalone ==
  \A c \in Callers :
     AfterMatcher(c) =>
        /\ JusticePlaced(c) =>
             /\ JusticeMatched(c)
             /\ SubstantiveMatched(c) \/ Search(STANDALONE_INCIDENT, MatcherText(c))
        /\ (JusticePlaced(c) /\ ~SubstantiveMatched(c)) => Placed(c) = <<"criminal_justice">>

\* C21, amended: after the category matcher, criminal_justice is in the list
\* exactly when its table matched and either a substantive category matched
\* or the title matches the standalone-incident pattern; when it is there with
\* no substantive category, the list is [other_crime, criminal_justice] if the
\* title matches the custody-escape pattern and [criminal_justice] otherwise.
C21_JusticeModifierRule ==
  \A c \in Callers :
     AfterMatcher(c) =>
        /\ JusticePlaced(c) <=>
             /\ JusticeMatched(c)
             /\ SubstantiveMatched(c) \/ Search(STANDALONE_INCIDENT, MatcherText(c))
        /\ (JusticePlaced(c) /\ ~SubstantiveMatched(c)) =>
             Placed(c) = IF Search(ESCAPE_CUSTODY, MatcherText(c))
                         THEN <<"other_crime", "criminal_justice">>
                         ELSE <<"criminal_justice">>

\* C21 happens: on a custody-escape title with no substantive category the
\* matcher placed other_crime before criminal_justice.
C21_Witness ==
  /\ AfterMatcher(1)
  /\ ~SubstantiveMatched(1)
  /\ Search(ESCAPE_CUSTODY, MatcherText(1))
  /\ Placed(1) = <<"other_crime", "criminal_justice">>

\* The call of caller c finished after running the location tagger.
Tagged(c) == Done(c) /\ Len(trace[c]) = 5 /\ trace[c][5] = "location"

\* C22: a finished call that ran the location tagger has the first tier its
\* title + body[:500] window matches: local_canada on a gazetteer entry, else
\* national_canada on a national keyword, else international on an
\* international indicator, else not_specified.
C22_LocationTiering ==
  \A c \in Callers :
     Tagged(c) =>
        Returned(c).location =
          IF match_any(Combined(TitleOf(c), BodyOf(c)), Table(registry, "CANADIAN_LOCATIONS"))
          THEN "local_canada"
          ELSE IF match_any(Combined(TitleOf(c), BodyOf(c)), NATIONAL_KEYWORDS)
          THEN "national_canada"
          ELSE IF match_any(Combined(TitleOf(c), BodyOf(c)), Table(registry, "INTERNATIONAL_INDICATORS"))
          THEN "international"
          ELSE "not_specified"

\* C22 fails: the tagger ran on a window whose only geographic cue is an
\* international indicator in the body, and left the location not_specified.
C22_Witness ==
  /\ Tagged(1)
  /\ ~is_international(registry, TitleOf(1))
  /\ match_any(Combined(TitleOf(1), BodyOf(1)), Table(registry, "INTERNATIONAL_INDICATORS"))
  /\ ~match_any(Combined(TitleOf(1), BodyOf(1)), Table(registry, "CANADIAN_LOCATIONS"))
  /\ ~match_any(Combined(TitleOf(1), BodyOf(1)), NATIONAL_KEYWORDS)
  /\ Returned(1).location = "not_specified"

\* C23: a finished call that was not excluded, on a title with an
\* international indicator, that returned a non-empty list, returned
\* peripheral_crime.
C23_InternationalAlwaysPeripheral ==
  \A c \in Callers :
     ( /\ Done(c) /\ ~ReturnedAtExclusion(c)
       /\ is_international(registry, TitleOf(c))
       /\ Returned(c).crime_types # <<>> )
     => Returned(c).relevance = "peripheral_crime"

\* C23 fails: the impaired-driving branch found a collision cue in a title
\* with an international indicator and returned core_street_crime.
C23_Witness ==
  /\ Done(1)
  /\ is_international(registry, TitleOf(1))
  /\ Fired(1) = "impaired_collision"
  /\ Returned(1).crime_types # <<>>
  /\ Returned(1).relevance = "core_street_crime"

\* The stages of a call in the order of the code.
PipelineOrder == <<"call", "exclusion", "matcher", "cascade", "location">>

\* The stage a trace entry belongs to: a branch label is the cascade's.
StageOf(label) ==
  IF label \in { BranchOrder[k] : k \in 1..Len(BranchOrder) } \cup {"impaired_collision", "none"}
  THEN "cascade" ELSE label

\* What the cascade left for the return of caller c.
CascadeVerdict(c) ==
  <<result[c].relevance, Deref(heap, frame[c].crime_types), frame[c].max_confidence>>

\* C24: the stages a call has run are a prefix of exclusion, category
\* matcher, override cascade, location tagger, each once; a call whose title
\* is excluded finished after the exclusion stage alone; and the step of the
\* location tagger leaves the relevance, the list and the confidence as the
\* cascade decided them, and only then is the call finished.
C24_PipelineOrdering ==
  /\ [](\A c \in Callers :
          /\ Len(trace[c]) <= Len(PipelineOrder)
          /\ \A i \in 1..Len(trace[c]) : StageOf(trace[c][i]) = PipelineOrder[i]
          /\ (Done(c) /\ Excluded(registry, TitleOf(c))) => trace[c] = <<"call", "exclusion">>
          /\ (Len(trace[c]) >= 3 \/ pc[c] \in {"matcher", "cascade", "location"})
                => ~Excluded(registry, TitleOf(c)))
  /\ [][\A c \in Callers :
          (pc[c] = "location" /\ pc'[c] # "location") =>
             /\ pc'[c] = "done"
             /\ trace'[c] = Append(trace[c], "location")
             /\ Verdict(Returned(c))' = CascadeVerdict(c)]_vars

\* C24 happens: a call ran all four stages, the cascade made it peripheral and
\* the tagger found a Canadian place.
C24_Witness ==
  /\ Done(1)
  /\ [ i \in 1..Len(trace[1]) |-> StageOf(trace[1][i]) ] = PipelineOrder
  /\ Returned(1).relevance = "peripheral_crime"
  /\ Returned(1).location = "local_canada"

\* The servers that keep a models_loaded flag.
FlaggedServers == { s \in Servers : ServerDef[s].checks_flag }

AllConstructed(s) ==
  \A i \in 1..Len(ServerDef[s].artifacts) : ServerDef[s].artifacts[i] \in sidecar[s].classifiers

\* C25: in mining-ml and coforge-ml, once started, models_loaded is true only
\* if the four classifiers are constructed; while it is false every /classify
\* answer is the neutral response, with every confidence 0.0 and every list
\* and score map empty, and every /health answer is 503; while it is true
\* /classify runs the classifiers and /health answers healthy; no /classify
\* raises; and no step of a started server changes models_loaded.
C25_LoadFlagGovernsRequests ==
  /\ [](\A s \in FlaggedServers :
          sidecar[s].started =>
             /\ sidecar[s].models_loaded => (Cardinality(sidecar[s].classifiers) = 4 /\ AllConstructed(s))
             /\ sidecar[s].response \in
                  {"none", IF sidecar[s].models_loaded THEN "classified" ELSE "neutral"}
             /\ sidecar[s].response = "neutral" =>
                  /\ sidecar[s].payload = NeutralResponse[s]
                  /\ \A i \in 1..Len(sidecar[s].payload.confidences) : sidecar[s].payload.confidences[i] = 0
                  /\ \A i \in 1..Len(sidecar[s].payload.lists) : sidecar[s].payload.lists[i] = <<>>
                  /\ \A i \in 1..Len(sidecar[s].payload.scores) : sidecar[s].payload.scores[i] = <<>>
             /\ sidecar[s].health \in
                  {"none", IF sidecar[s].models_loaded THEN "healthy" ELSE "503"})
  /\ [][\A s \in FlaggedServers :
          sidecar[s].started =>
             /\ sidecar'[s].models_loaded = sidecar[s].models_loaded
             /\ sidecar'[s].classifiers = sidecar[s].classifiers]_vars

\* C25 happens: mining-ml serves degraded and has answered both requests,
\* while coforge-ml serves with its four classifiers and has answered both.
C25_Witness ==
  /\ sidecar["mining-ml"].started /\ ~sidecar["mining-ml"].models_loaded
  /\ sidecar["mining-ml"].response = "neutral" /\ sidecar["mining-ml"].health = "503"
  /\ sidecar["coforge-ml"].started /\ sidecar["coforge-ml"].models_loaded
  /\ sidecar["coforge-ml"].response = "classified" /\ sidecar["coforge-ml"].health = "healthy"

\* C26: on every scoring path, a multi-label classifier's answer on a
\* non-empty cleaned text has a scores map with one entry per class and every
\* score within [0, 1], and its label list holds, in class order, exactly the
\* classes whose score is at least 0.3.
C26_MultiLabelScores ==
  (ml.op = "classify" /\ ml.who \in MultiLabel /\ ml.cleaned # <<>>) =>
     LET classes == ClassesOf(ml.who)
         scores == ml.result.scores
     IN  /\ ScoringPath(ml.who, ml.method) \in {"predict_proba", "decision_function", "predict"}
         /\ DOMAIN scores = { classes[i] : i \in 1..Len(classes) }
         /\ \A c \in DOMAIN scores : scores[c] >= 0 /\ scores[c] <= 10000
         /\ ml.result.labels = Kept(classes, [i \in 1..Len(classes) |-> scores[classes[i]] >= 3000])

\* C26 happens: on the decision_function path one class scored just above
\* the threshold and the next just below, and only the first is listed.
C26_Witness ==
  /\ ml.op = "classify" /\ ml.who \in MultiLabel /\ ml.cleaned # <<>>
  /\ ScoringPath(ml.who, ml.method) = "decision_function"
  /\ ml.raw[1] = -84 /\ ml.raw[2] = -85
  /\ ml.result.labels = <<ClassesOf(ml.who)[1]>>

\* C27: a statistical classifier given a text that cleans to "", as "" and
\* None do, answers without the vectorizer or the model: a single-label one
\* its default label with confidence 0.5, a multi-label one an empty list
\* and an empty scores map.
C27_EmptyTextShortCircuit ==
  ml.op = "classify" =>
     /\ ml.text \in {None, EmptyStr} => ml.cleaned = <<>>
     /\ ml.cleaned = <<>> =>
          /\ ~ml.invoked
          /\ ml.who \in SingleLabel =>
               /\ ml.result.label = ClassifierDef[ml.who].default
               /\ ml.result.confidence = 5000
          /\ ml.who \in MultiLabel =>
               /\ ml.result.labels = <<>>
               /\ DOMAIN ml.result.scores = {}

\* C27 happens: a single-label classifier was given a text that is not empty
\* but cleans to "" (a URL) and answered its default.
C27_Witness ==
  /\ ml.op = "classify"
  /\ ml.who = "coforge-ml/audience"
  /\ ml.text = Str(0, <<"https://x.io">>)
  /\ ml.cleaned = <<>>
  /\ ml.result = [label |-> "hybrid", confidence |-> 5000]

\* C28: the output of every normalizer depends only on the first 1,000,000
\* characters of its input: it is what the normalizer gives for that prefix.
C28_NormalizerCapsInput ==
  ml.op = "preprocess_text" =>
     ml.cleaned = preprocess_text(ml.variant, Prefix(ml.text, MAX_PREPROCESS_LENGTH))

\* C28 fails: crime-ml's normalizer returned a word that begins after the
\* first 1,000,000 characters of its input.
C28_Witness ==
  /\ ml.op = "preprocess_text"
  /\ ml.variant = "crime-ml"
  /\ ml.text = Str(MAX_PREPROCESS_LENGTH, <<"gold">>)
  /\ ml.cleaned = <<"gold">>

\* C29: a finished call that returned core_street_crime or peripheral_crime
\* returned a confidence of at least 0.50; confidence 0.0 goes only with
\* not_crime.
C29_RelevantHasConfidence ==
  \A c \in Callers :
     Done(c) =>
        /\ Returned(c).relevance \in {"core_street_crime", "peripheral_crime"}
             => Returned(c).confidence >= 50
        /\ Returned(c).confidence = 0 => Returned(c).relevance = "not_crime"

\* C29 fails: a standoff title without arrest or custody wording was
\* returned as core_street_crime, [criminal_justice], with confidence 0.0.
C29_Witness ==
  /\ Done(1)
  /\ Search(STANDALONE_INCIDENT, WordsOf(TitleOf(1)))
  /\ ~Search(STANDOFF_ARREST, WordsOf(TitleOf(1)))
  /\ ~Search(ESCAPE_CUSTODY, WordsOf(TitleOf(1)))
  /\ Verdict(Returned(1)) = <<"core_street_crime", <<"criminal_justice">>, 0>>

\* C30: in every returned Classification a non-empty crime_types goes with
\* core_street_crime or peripheral_crime, core_street_crime goes with a
\* non-empty crime_types, and peripheral_crime has an empty crime_types only
\* out of the two policy branches.
C30_LabelledIsRelevant ==
  \A c \in Callers :
     Done(c) =>
        /\ Returned(c).crime_types # <<>>
             => Returned(c).relevance \in {"core_street_crime", "peripheral_crime"}
        /\ Returned(c).relevance = "core_street_crime" => Returned(c).crime_types # <<>>
        /\ (Returned(c).relevance = "peripheral_crime" /\ Returned(c).crime_types = <<>>)
             => Fired(c) \in {"policy_override", "residual_policy"}

\* C30 happens: the residual policy branch returned peripheral_crime with no
\* category, on a title whose arrest wording alone made none.
C30_Witness ==
  /\ Done(1)
  /\ Fired(1) = "residual_policy"
  /\ JusticeMatched(1)
  /\ Verdict(Returned(1)) = <<"peripheral_crime", <<>>, 50>>

====
